---- MODULE Spec2Model ----
(* State-machine model of the resilient transport (useWebSocket), of the   *)
(* frame decoder (VideoTextureManager), of the head pose tracker           *)
(* (HeadPoseTracker) and of the off-axis camera (OffAxisCamera) of the 3D  *)
(* portal client.                                                          *)
EXTENDS Integers, Sequences, FiniteSets, Bags, TLC

\* ------------------------------------------------------------------ bounds
\* Socket objects that are alive (not yet closed, or still referenced) at once.
MaxSockets == 2
\* Timers pending at once in the event loop.
MaxTimers == 1
\* Timers pending at once when reconnect() is called twice.
MaxPending == 2
\* Cap of the reconnect attempt counter.
MaxAttempt == 7
\* Number of send / sendJson calls in one behaviour.
MaxSends == 1
\* Decodes in flight at once whose entry was removed from the map.
MaxOrphans == 1
\* Largest finite capture timestamp on the wire.
MaxTs == 1
\* Smoothed head pose samples in a row since the last unsmoothed one.
MaxSmoothed == 2
\* Largest value of the clock, in steps of its resolution.
MaxNow == 2
\* Animation frames requested from the browser.
MaxFrames == 4
\* Stream sockets opened by connectSource.
MaxStreams == 2
\* Overlay containers made in one behaviour.
MaxContainers == 3
\* createOverlay calls waiting at their await at once.
MaxCreating == 2

\* ------------------------------------------------- transport: constants
reconnectDelay == 1000
maxReconnectDelay == 30000

\* WebSocket.readyState values
CONNECTING == 0
OPEN == 1
CLOSING == 2
CLOSED == 3

\* reconnectTimerRef.current: 0 is null, Stale is the handle of a timer that
\* has already fired or been cleared (truthy, but names no pending timer).
Stale == -1

VARIABLES
  autoReconnect,        \* option, fixed for the lifetime of the hook
  sockets,              \* slot -> [readyState, handlers]
  wsRef,                \* wsRef.current: 0 (null) or a slot
  reconnectAttemptRef,  \* reconnectAttemptRef.current
  reconnectTimerRef,    \* reconnectTimerRef.current
  intentionalCloseRef,  \* intentionalCloseRef.current
  connected,            \* React state `connected`
  timers,               \* pending timers of the event loop: [id, kind]
  mounted,              \* the effect of lines 132-143 is mounted
  \* history (observation only)
  delays,               \* backoff delays scheduled since the last successful open
  failsBeforeOpen,      \* -1 before any open, else Len(delays) at the last open
  userClosed,           \* the caller's last lifecycle call was close()
  nextPayload,          \* id of the next payload handed to send / sendJson
  sent,                 \* payload ids handed to WebSocket.send
  dropped,              \* payload ids of calls made while the socket was not open
  sendThrew,            \* a send / sendJson call threw
  \* frame decoder (VideoTextureManager)
  textures,             \* the map `textures`: source id -> entry, or Absent
  decodes,              \* bag of the createImageBitmap calls in flight
  lastOp,               \* history: what the last call or continuation
                        \* returned, why, and the resource calls it made
  \* head pose tracker (HeadPoseTracker)
  config,               \* this.config
  previousPose,         \* this.previousPose, or NullPose
  smoothedCount,        \* smoothed samples since the last unsmoothed one
  trackerOp,            \* history: the last call, its argument, the clamped
                        \* raw pose of an update and what it returned
  now                   \* what performance.now() returns, in steps of the
                        \* resolution of the clock

tvars == <<autoReconnect, sockets, wsRef, reconnectAttemptRef, reconnectTimerRef,
           intentionalCloseRef, connected, timers, mounted, delays,
           failsBeforeOpen, userClosed, nextPayload, sent, dropped, sendThrew>>

dvars == <<textures, decodes, lastOp>>

pvars == <<config, previousPose, smoothedCount, trackerOp, now>>

VARIABLES
  settings,             \* OffAxisCamera.settings
  screenWidth,          \* OffAxisCamera.screenWidth
  screenHeight,         \* OffAxisCamera.screenHeight
  headX,                \* OffAxisCamera.headX
  headY,                \* OffAxisCamera.headY
  headZ,                \* OffAxisCamera.headZ
  camera,               \* OffAxisCamera.camera: aspect, near, far,
                        \* projectionMatrix, position
  cameraOp              \* history: the last call on the camera

cvars == <<settings, screenWidth, screenHeight, headX, headY, headZ, camera,
           cameraOp>>

VARIABLES
  worldCall             \* history: the last call of headPoseToWorldPosition

wvars == <<worldCall>>

VARIABLES
  currentHeadPose,      \* App: the currentHeadPose state, or NullResult
  portalOp              \* history: the last event of the pipeline and the
                        \* detection result or the size it carried

avars == <<currentHeadPose, portalOp>>

VARIABLES
  landmarker,           \* useFaceLandmarker: the landmarker state is set
  rafIdRef,             \* rafIdRef.current, 0 for null
  lastTimestampRef,     \* lastTimestampRef.current
  frames,               \* the animation frame callbacks the browser holds
  lastFrameId,          \* the id requestAnimationFrame returned last
  stopped,              \* history: stopDetection was called and
                        \* startDetection was not called since
  detectionOp           \* history: the last call or callback, and whether
                        \* it invoked the detector

lvars == <<landmarker, rafIdRef, lastTimestampRef, frames, lastFrameId, stopped,
           detectionOp>>

VARIABLES
  streamSocketsRef,     \* streamSocketsRef.current: the stream socket of a
                        \* source id, 0 for none
  streams,              \* the stream sockets made so far: source id and
                        \* readyState
  referenced,           \* history: the caller named the source in getTexture
                        \* or connectSource since it last disconnected it
  sourceOp              \* history: the last call or event of the hook

svars == <<streamSocketsRef, streams, referenced, sourceOp>>

VARIABLES
  data,                 \* calibrationManager.data
  localStorage,         \* the item stored under STORAGE_KEY, or NotStored
  calibrated,           \* the item under CALIBRATED_KEY is 'true'
  calibrationOp         \* history: the last call on the calibration manager

kvars == <<data, localStorage, calibrated, calibrationOp>>

VARIABLES
  depthPlanes,          \* App: the depthPlanes state, plane id -> whether the
                        \* plane is in the list, and its sourceId
  planeOp               \* history: the last plane handler, its plane and
                        \* source id

nvars == <<depthPlanes, planeOp>>

VARIABLES
  apiLoaded,            \* youtubeOverlayManager: apiLoaded
  apiLoading,           \* youtubeOverlayManager: apiLoading
  overlays,             \* YouTubeOverlayManager.overlays: plane id -> the
                        \* container of its record, 0 for none
  containers,           \* the containers made so far: plane id, and whether
                        \* the container is in the document
  creating,             \* the createOverlay calls waiting at their await, in
                        \* the order of the calls
  overlayOp             \* history: the last call or continuation

yvars == <<apiLoaded, apiLoading, overlays, containers, creating, overlayOp>>

vars == <<tvars, dvars, pvars, cvars, wvars, avars, lvars, svars, kvars, nvars, yvars>>

\* ------------------------------------------------- components
\* Every specification runs the objects its Init constructs. The variables of
\* an object that a specification does not construct hold NotConstructed.
NotConstructed == "not constructed"

\* ------------------------------------------------- frame decoder: data
HEADER_SIZE == 21
\* side of the placeholder canvas
PlaceholderSize == 64

Sources == {"a", "b"}

\* float64 capture timestamps: finite values and NaN
NaN == [nan |-> TRUE, v |-> 0]
Finite(n) == [nan |-> FALSE, v |-> n]
Timestamps == {Finite(n) : n \in 0..MaxTs} \cup {NaN}

\* a <= b and a < b on float64: false as soon as one side is NaN
Float64Leq(a, b) == ~a.nan /\ ~b.nan /\ a.v <= b.v
Float64Lt(a, b) == ~a.nan /\ ~b.nan /\ a.v < b.v

\* frame sizes on the wire
FrameDims == {<<64, 64>>, <<128, 96>>}

\* a binary message: the received length and the header fields read from it
Frame(len, type, ts, dims, dataLen) ==
  [byteLength |-> len, type |-> type, timestamp |-> ts, dims |-> dims,
   dataLen |-> dataLen]

\* type 1, and exactly the declared payload after the header
WellFormedFrames ==
  {Frame(HEADER_SIZE + 1, 1, ts, d, 1) : ts \in Timestamps, d \in FrameDims}

\* one byte short of a header; a wrong type byte; a payload one byte short,
\* with and without any payload byte present
MalformedFrames ==
  UNION {{Frame(HEADER_SIZE - 1, 1, ts, <<64, 64>>, 0),
          Frame(HEADER_SIZE + 1, 2, ts, <<64, 64>>, 1),
          Frame(HEADER_SIZE + 1, 1, ts, <<64, 64>>, 2),
          Frame(HEADER_SIZE, 1, ts, <<64, 64>>, 1)} : ts \in {Finite(MaxTs)}}

Buffers == WellFormedFrames \cup MalformedFrames

\* texture.image / lastBitmap
NoBitmap == [kind |-> "none", ts |-> NaN, dims |-> <<0, 0>>]
Placeholder == [kind |-> "canvas", ts |-> NaN,
                dims |-> <<PlaceholderSize, PlaceholderSize>>]
Bitmap(ts, dims) == [kind |-> "bitmap", ts |-> ts, dims |-> dims]

\* A THREE.Texture object, named by the source it was created for and its
\* rank among the textures of that source that something tracked here
\* references. Only the map references textures, so the rank in use is 1.
Texture(src, k) == <<src, k>>
NoTexture == <<"", 0>>

\* The entry getTexture creates around the texture `tex`, lines 42-56.
\* frameCount only feeds the log lines 135-139 and is left out.
FreshEntry(tex) ==
  [exists |-> TRUE,
   texture |-> tex,
   image |-> Placeholder,
   lastTimestamp |-> Finite(0),
   processing |-> FALSE,
   currentWidth |-> PlaceholderSize,
   currentHeight |-> PlaceholderSize,
   lastBitmap |-> NoBitmap]

\* textures.get(sourceId) === undefined
Absent == [FreshEntry(NoTexture) EXCEPT !.exists = FALSE]

\* history record of a step: the call, what it returned and why, the texture
\* object getTexture returned, the calls of the install block (lines
\* 113-129) in program order
Op(op, ret, why, texture, install) ==
  [op |-> op, ret |-> ret, why |-> why, texture |-> texture, install |-> install]

\* lastOp after a call that returns nothing
NoOp == Op("other", "", "", NoTexture, <<>>)

DecoderIdle ==
  /\ textures = [s \in Sources |-> Absent]
  /\ decodes = EmptyBag
  /\ lastOp = NoOp

\* no VideoTextureManager
DecoderAbsent ==
  /\ textures = NotConstructed
  /\ decodes = NotConstructed
  /\ lastOp = NotConstructed

\* A decode in flight: the entry object its continuation holds is the one in
\* the map (orphan = FALSE) or one that was removed from the map since.
Decode(src, ts, dims, orphan) ==
  [src |-> src, ts |-> ts, dims |-> dims, orphan |-> orphan]

\* number of decodes in flight for a source id
DecodeCount(src) ==
  BagCardinality([d \in {x \in DOMAIN decodes : x.src = src} |-> decodes[d]])

OrphanCount(decs) ==
  BagCardinality([d \in {x \in DOMAIN decs : x.orphan} |-> decs[d]])

\* textures.delete(sourceId): the decodes of its entry keep the removed
\* object. Nothing else refers to it, so what the continuation will write to
\* it is not tracked: only the source id of the decode is kept.
Orphaned(decs, srcs) ==
  BagOfAll(LAMBDA d : IF d.src \in srcs
                      THEN Decode(d.src, NaN, <<0, 0>>, TRUE) ELSE d, decs)

\* new THREE.Texture(placeholder), line 42: the texture that the
\* entry of the source in the map will hold
NewTexture(src) == Texture(src, 1)

\* ------------------------------------------------- video sources: data

StreamIds == 1..MaxStreams

\* the frames a stream server sends: well formed, of increasing capture time
StreamFrames ==
  {Frame(HEADER_SIZE + 1, 1, Finite(n), <<64, 64>>, 1) : n \in 1..2}

SourceOp(op, src) == [op |-> op, src |-> src]

\* useVideoSources, lines 31-32: no stream socket
SourcesIdle ==
  /\ streamSocketsRef = [s \in Sources |-> 0]
  /\ streams = <<>>
  /\ referenced = [s \in Sources |-> FALSE]
  /\ sourceOp = SourceOp("mount", "")

\* no useVideoSources
SourcesAbsent ==
  /\ streamSocketsRef = NotConstructed
  /\ streams = NotConstructed
  /\ referenced = NotConstructed
  /\ sourceOp = NotConstructed

\* ------------------------------------------------- head pose tracker: data
\* float64 values of the pose pipeline. Finite values are held in hundredths
\* (0.3 is Num(30)); the result of every multiplication, division and square
\* root is rounded to the nearest hundredth, ties to even, as float64 rounds
\* it to the nearest representable value.
Num(n) == [kind |-> "finite", v |-> n]
NumNaN == [kind |-> "nan", v |-> 0]
NumInfinity(sign) == [kind |-> "infinity", v |-> sign]

IsNaN(a) == a.kind = "nan"

Abs(n) == IF n < 0 THEN -n ELSE n

\* n / d for integers, d > 0, rounded to the nearest integer, ties to even
RoundDiv(n, d) ==
  LET q == n \div d
      r == n % d
  IN IF 2 * r < d THEN q
     ELSE IF 2 * r > d THEN q + 1
     ELSE IF q % 2 = 0 THEN q ELSE q + 1

\* Math.sqrt of an integer n >= 0, rounded to the nearest integer
RoundSqrt(n) ==
  CHOOSE r \in 0..(n + 1) :
    /\ 4 * n < (2 * r + 1) * (2 * r + 1)
    /\ r = 0 \/ (2 * r - 1) * (2 * r - 1) <= 4 * n

\* a + b, a - b, a * b on finite values or NaN
Plus(a, b) == IF IsNaN(a) \/ IsNaN(b) THEN NumNaN ELSE Num(a.v + b.v)
Minus(a, b) == IF IsNaN(a) \/ IsNaN(b) THEN NumNaN ELSE Num(a.v - b.v)
Times(a, b) ==
  IF IsNaN(a) \/ IsNaN(b) THEN NumNaN ELSE Num(RoundDiv(a.v * b.v, 100))

\* a / b: dividing by zero gives an infinity, or NaN for 0 / 0
Divide(a, b) ==
  IF IsNaN(a) \/ IsNaN(b) THEN NumNaN
  ELSE IF b.v = 0
       THEN IF a.v = 0 THEN NumNaN ELSE NumInfinity(IF a.v > 0 THEN 1 ELSE -1)
  ELSE IF b.v > 0 THEN Num(RoundDiv(a.v * 100, b.v))
  ELSE Num(RoundDiv(-(a.v * 100), -b.v))

\* Math.min and Math.max: NaN as soon as one argument is NaN
MathMin(a, b) ==
  IF IsNaN(a) \/ IsNaN(b) THEN NumNaN ELSE IF a.v <= b.v THEN a ELSE b
MathMax(a, b) ==
  IF IsNaN(a) \/ IsNaN(b) THEN NumNaN ELSE IF a.v >= b.v THEN a ELSE b

\* mutation of clamp: the lower limit is not applied
clampNoFloor(val, min, max) == MathMin(max, val)

\* clamp, lines 277-279
clamp(val, min, max) == MathMax(min, MathMin(max, val))

\* mutation of ema: the weights are exchanged
emaSwapped(current, previous, alpha) ==
  Plus(Times(alpha, previous), Times(Minus(Num(100), alpha), current))

\* mutation of ema: the previous sample is kept
emaKeepsPrevious(current, previous, alpha) == previous

\* ema, lines 281-283
ema(current, previous, alpha) ==
  Plus(Times(alpha, current), Times(Minus(Num(100), alpha), previous))

DEFAULT_CONFIG ==
  [smoothingFactor |-> Num(30),
   clampX |-> <<Num(0), Num(100)>>,
   clampY |-> <<Num(0), Num(100)>>,
   clampZ |-> <<Num(30), Num(300)>>]

\* DEFAULT_CALIBRATION, lines 150-157. referenceInterOcularPx and
\* realInterOcularCm are read by nothing that is tracked here.
DEFAULT_CALIBRATION ==
  [screenWidthCm |-> Num(3400), screenHeightCm |-> Num(1900),
   viewingDistanceCm |-> Num(6000), pixelsPerCm |-> Num(0)]

\* Object.assign(target, partial)
ObjectAssign(target, partial) ==
  [f \in DOMAIN target |-> IF f \in DOMAIN partial THEN partial[f] ELSE target[f]]

\* constructor arguments: none, a number, a partial config
NoArg == [kind |-> "none"]
NumberArg(n) == [kind |-> "number", n |-> n]
ConfigArg(partial) == [kind |-> "config", partial |-> partial]

\* the constructor, lines 289-295
ConstructorConfig(arg) ==
  IF arg.kind = "number" THEN [DEFAULT_CONFIG EXCEPT !.smoothingFactor = arg.n]
  ELSE IF arg.kind = "config" THEN ObjectAssign(DEFAULT_CONFIG, arg.partial)
  ELSE DEFAULT_CONFIG

\* the landmarks update() reads, in hundredths of the frame; z is not read
Point(x, y) == [x |-> x, y |-> y]
Face(leftEyeInner, rightEyeInner, noseTip, leftEyeOuter, rightEyeOuter) ==
  [leftEyeInner |-> leftEyeInner, rightEyeInner |-> rightEyeInner,
   noseTip |-> noseTip, leftEyeOuter |-> leftEyeOuter,
   rightEyeOuter |-> rightEyeOuter]

\* a tilted face in the middle of the frame
FaceCentre ==
  Face(Point(47, 36), Point(53, 44), Point(50, 40), Point(41, 28), Point(59, 52))
\* a face close to the camera, partly beyond the right edge of the frame
FaceNear ==
  Face(Point(85, 40), Point(125, 40), Point(105, 40), Point(75, 40), Point(135, 40))
\* a face far from the camera, at the left edge
FaceFar ==
  Face(Point(4, 40), Point(6, 40), Point(5, 40), Point(3, 40), Point(7, 40))

\* the argument of update: null, or a list of `length` landmarks
NullLandmarks == [null |-> TRUE, length |-> 0, face |-> FaceCentre]
Landmarks(length, face) == [null |-> FALSE, length |-> length, face |-> face]

LandmarkLists ==
  {NullLandmarks, Landmarks(0, FaceCentre), Landmarks(467, FaceNear)}
    \cup {Landmarks(468, f) : f \in {FaceCentre, FaceNear, FaceFar}}
    \cup {Landmarks(478, FaceCentre)}

\* arguments of setSmoothingFactor
Factors == {NumNaN, Num(0), Num(1), Num(50), Num(100), Num(200)}

\* arguments of the constructor and of setConfig
NarrowDepth == [clampZ |-> <<Num(30), Num(100)>>]
Undamped == [smoothingFactor |-> Num(200)]
ConstructorArgs == {NoArg, NumberArg(Num(200)), ConfigArg(NarrowDepth)}
ConfigPartials == {NarrowDepth, Undamped}

\* this.previousPose === null, and a HeadPose
NullPose ==
  [null |-> TRUE, x |-> NumNaN, y |-> NumNaN, z |-> NumNaN, interOcularPx |-> NumNaN,
   timestamp |-> -1]
HeadPose(x, y, z, interOcularPx, timestamp) ==
  [null |-> FALSE, x |-> x, y |-> y, z |-> z, interOcularPx |-> interOcularPx,
   timestamp |-> timestamp]

\* what update returns: null, or the smoothed pose with its world position
NullResult ==
  [null |-> TRUE, pose |-> NullPose,
   world |-> [x |-> NumNaN, y |-> NumNaN, z |-> NumNaN]]
SmoothedHeadPose(pose, world) == [null |-> FALSE, pose |-> pose, world |-> world]

\* history record of a tracker call: the call, the landmark list or the
\* factor it was given, the clamped raw pose of an update, what the update
\* returned, and the number of valid updates in a row that carried the same
\* landmark list
TrackerOp(op, landmarks, factor, raw, ret, repeats) ==
  [op |-> op, landmarks |-> landmarks, factor |-> factor, raw |-> raw,
   ret |-> ret, repeats |-> repeats]

\* a call that is no update and takes no factor
TrackerCall(op) == TrackerOp(op, NullLandmarks, NumNaN, NullPose, NullResult, 0)

\* a tracker constructed without argument, never used
TrackerIdle ==
  /\ config = DEFAULT_CONFIG
  /\ previousPose = NullPose
  /\ smoothedCount = 0
  /\ trackerOp = TrackerCall("constructor")
  /\ now = 0

\* no HeadPoseTracker: the clock alone
TrackerAbsent ==
  /\ config = NotConstructed
  /\ previousPose = NotConstructed
  /\ smoothedCount = NotConstructed
  /\ trackerOp = NotConstructed
  /\ now = 0

\* ------------------------------------------------- calibration: data

\* JSON null, what JSON.stringify writes for NaN and the infinities
NumNull == [kind |-> "null", v |-> 0]

\* localStorage.getItem(STORAGE_KEY) === null
NotStored == [stored |-> FALSE]

\* JSON.parse(JSON.stringify(d)): the item setItem stores, as load reads it
Stored(d) ==
  [f \in DOMAIN d \cup {"stored"} |->
     IF f = "stored" THEN TRUE
     ELSE IF d[f].kind = "finite" THEN d[f] ELSE NumNull]

\* window.screen.width * (window.devicePixelRatio || 1): 1920
ScreenWidthPx == Num(192000)

\* computePixelsPerCm, lines 211-214
ComputePixelsPerCm(d) == Divide(ScreenWidthPx, d.screenWidthCm)

\* a number as a condition: 0, NaN and null are falsy
Truthy(a) == a.kind = "infinite" \/ (a.kind = "finite" /\ a.v # 0)

\* load() and the constructor, lines 162-179
Loaded(item) ==
  LET d == IF item.stored
           THEN [f \in DOMAIN DEFAULT_CALIBRATION |-> item[f]]
           ELSE DEFAULT_CALIBRATION
  IN IF d.pixelsPerCm = Num(0)
     THEN [d EXCEPT !.pixelsPerCm = ComputePixelsPerCm(d)]
     ELSE d

\* arguments of setCalibration: a recalibration, the files handleImport
\* reads (src/unnamed/part_002 lines 83-88), a new viewing distance
CalibrationPartials ==
  {[screenWidthCm |-> Num(6000), screenHeightCm |-> Num(3400)],
   [screenWidthCm |-> Num(0)],
   [screenWidthCm |-> Num(0), screenHeightCm |-> Num(1900)],
   [screenWidthCm |-> Num(5300), screenHeightCm |-> Num(3000)],
   [screenHeightCm |-> Num(-1900)],
   [viewingDistanceCm |-> Num(8000)],
   [viewingDistanceCm |-> Num(4500)]}

CalibrationOp(op, partial) == [op |-> op, partial |-> partial]

\* new CalibrationManager() in a browser that stores nothing
CalibrationIdle ==
  /\ data = Loaded(NotStored)
  /\ localStorage = NotStored
  /\ calibrated = FALSE
  /\ calibrationOp = CalibrationOp("constructor", <<>>)

\* no CalibrationManager
CalibrationAbsent ==
  /\ data = NotConstructed
  /\ localStorage = NotConstructed
  /\ calibrated = NotConstructed
  /\ calibrationOp = NotConstructed

\* ------------------------------------------------- depth planes: data

\* two of the planes of DEFAULT_PLANES
Planes == {"back", "left"}

\* sourceId: null
NoSource == ""

Plane(exists, sourceId) == [exists |-> exists, sourceId |-> sourceId]

PlaneOp(op, plane, sourceId) == [op |-> op, plane |-> plane, sourceId |-> sourceId]

\* App, line 48: the default planes, none with a source
PlanesIdle ==
  /\ depthPlanes = [p \in Planes |-> Plane(TRUE, NoSource)]
  /\ planeOp = PlaneOp("mount", "", NoSource)

\* no App
PlanesAbsent ==
  /\ depthPlanes = NotConstructed
  /\ planeOp = NotConstructed

\* ------------------------------------------------- video overlays: data

VideoIds == {"v1", "v2"}

\* the containers createOverlay has made so far
ContainerIds == 1..MaxContainers

OverlayOp(op, plane) == [op |-> op, plane |-> plane]

\* a createOverlay call at its await: resolved when its promise is
Creating(plane, videoId, resolved) ==
  [plane |-> plane, videoId |-> videoId, resolved |-> resolved]

\* module state of lines 7-9 and new YouTubeOverlayManager(parentEl)
OverlaysIdle ==
  /\ apiLoaded = FALSE
  /\ apiLoading = FALSE
  /\ overlays = [p \in Planes |-> 0]
  /\ containers = <<>>
  /\ creating = <<>>
  /\ overlayOp = OverlayOp("constructor", "")

\* no YouTubeOverlayManager
OverlaysAbsent ==
  /\ apiLoaded = NotConstructed
  /\ apiLoading = NotConstructed
  /\ overlays = NotConstructed
  /\ containers = NotConstructed
  /\ creating = NotConstructed
  /\ overlayOp = NotConstructed

\* ------------------------------------------------- world conversion
\* a HeadPose given to headPoseToWorldPosition (timestamp and interOcularPx
\* are not read)
ConvertedPoses ==
  {[x |-> Num(x), y |-> Num(y), z |-> Num(z)] :
     x \in {0, 25, 50, 75, 100}, y \in {0, 25, 50, 75, 100},
     z \in {-240, 0, 30, 100, 167, 300}}

\* screenWidthCm, screenHeightCm, baseDistanceCm
ConvertedCalibrations ==
  {<<Num(3400), Num(1900), Num(6000)>>, <<Num(6000), Num(3400), Num(8000)>>}

WorldCall(op, pose, screen, ret) ==
  [op |-> op, pose |-> pose, screen |-> screen, ret |-> ret]

WorldIdle ==
  worldCall = WorldCall("none", [x |-> NumNaN, y |-> NumNaN, z |-> NumNaN],
                        <<NumNaN, NumNaN, NumNaN>>,
                        [x |-> NumNaN, y |-> NumNaN, z |-> NumNaN])

\* headPoseToWorldPosition is not called
WorldAbsent == worldCall = NotConstructed

\* ------------------------------------------------- tracking pipeline: data

\* what the landmark detector hands to handleResults: a list of faces, each
\* a list of landmarks
DetectionResults ==
  {<<>>, <<Landmarks(0, FaceCentre)>>, <<Landmarks(467, FaceNear)>>,
   <<Landmarks(468, FaceCentre)>>, <<Landmarks(468, FaceNear)>>,
   <<Landmarks(478, FaceFar), Landmarks(468, FaceCentre)>>}

PortalOp(op, faceLandmarks, size) ==
  [op |-> op, faceLandmarks |-> faceLandmarks, size |-> size]

\* useState<SmoothedHeadPose | null>(null), src/unnamed/part_001 line 50
AppIdle ==
  /\ currentHeadPose = NullResult
  /\ portalOp = PortalOp("mount", <<>>, <<0, 0>>)

\* no App
AppAbsent ==
  /\ currentHeadPose = NotConstructed
  /\ portalOp = NotConstructed

\* ------------------------------------------------- detection loop: data

DetectionOp(op, invoked) == [op |-> op, invoked |-> invoked]

\* useFaceLandmarker, useMonitorDetection.ts lines 170-175, before the
\* landmarker has loaded
DetectionIdle ==
  /\ landmarker = FALSE
  /\ rafIdRef = 0
  /\ lastTimestampRef = -1
  /\ frames = {}
  /\ lastFrameId = 0
  /\ stopped = FALSE
  /\ detectionOp = DetectionOp("mount", FALSE)

\* no useFaceLandmarker
DetectionAbsent ==
  /\ landmarker = NotConstructed
  /\ rafIdRef = NotConstructed
  /\ lastTimestampRef = NotConstructed
  /\ frames = NotConstructed
  /\ lastFrameId = NotConstructed
  /\ stopped = NotConstructed
  /\ detectionOp = NotConstructed

\* ------------------------------------------------- off-axis camera: data
\* Numbers of the camera are held in ten-thousandths: Fine(6000) is 0.6.
\* Every product and quotient is rounded to the nearest ten-thousandth.
Fine(n) == [kind |-> "finite", v |-> n]

IsInfinite(a) == a.kind = "infinity"
Sign(a) == IF a.v < 0 THEN -1 ELSE 1

RECURSIVE Gcd(_, _)
Gcd(a, b) == IF b = 0 THEN a ELSE Gcd(b, a % b)

\* -a
FineNeg(a) ==
  IF IsNaN(a) THEN NumNaN
  ELSE IF IsInfinite(a) THEN NumInfinity(-a.v)
  ELSE Fine(-a.v)

\* a - b
FineMinus(a, b) ==
  IF IsNaN(a) \/ IsNaN(b) THEN NumNaN
  ELSE IF IsInfinite(a)
       THEN IF IsInfinite(b) /\ a.v = b.v THEN NumNaN ELSE a
  ELSE IF IsInfinite(b) THEN NumInfinity(-b.v)
  ELSE Fine(a.v - b.v)

\* a * b
FineTimes(a, b) ==
  IF IsNaN(a) \/ IsNaN(b) THEN NumNaN
  ELSE IF IsInfinite(a) \/ IsInfinite(b)
       THEN IF a.v = 0 \/ b.v = 0 THEN NumNaN ELSE NumInfinity(Sign(a) * Sign(b))
  ELSE Fine(RoundDiv(a.v * b.v, 10000))

\* a / b; the scale and the divisor are reduced by their common factor
\* before the multiplication, which leaves the quotient as it is
FineDivide(a, b) ==
  IF IsNaN(a) \/ IsNaN(b) THEN NumNaN
  ELSE IF IsInfinite(a)
       THEN IF IsInfinite(b) THEN NumNaN ELSE NumInfinity(Sign(a) * Sign(b))
  ELSE IF IsInfinite(b) THEN Fine(0)
  ELSE IF b.v = 0
       THEN IF a.v = 0 THEN NumNaN ELSE NumInfinity(Sign(a))
  ELSE LET g == Gcd(10000, Abs(b.v))
       IN Fine(RoundDiv(Sign(b) * a.v * (10000 \div g), Abs(b.v) \div g))

\* Math.max(a, b)
FineMax(a, b) ==
  IF IsNaN(a) \/ IsNaN(b) THEN NumNaN
  ELSE IF IsInfinite(a) THEN (IF a.v > 0 THEN a ELSE b)
  ELSE IF IsInfinite(b) THEN (IF b.v > 0 THEN b ELSE a)
  ELSE IF a.v >= b.v THEN a ELSE b

\* a < b of JavaScript: false as soon as one side is NaN
FineLess(a, b) ==
  /\ ~IsNaN(a)
  /\ ~IsNaN(b)
  /\ IF IsInfinite(a) THEN a.v < 0 /\ ~(IsInfinite(b) /\ b.v < 0)
     ELSE IF IsInfinite(b) THEN b.v > 0
     ELSE a.v < b.v

\* DEFAULT_SETTINGS, lines 5-11 (smoothingFactor is not read by the camera)
DEFAULT_SETTINGS ==
  [nearPlane |-> Fine(100),
   farPlane |-> Fine(100000),
   movementScale |-> Fine(15000),
   smoothingFactor |-> Fine(3000),
   axisStrength |-> [x |-> Fine(10000), y |-> Fine(10000), z |-> Fine(10000)]]

\* calibration read by the constructor: DEFAULT_CALIBRATION, in centimetres
CameraCalibration ==
  [screenWidthCm |-> Fine(340000),
   screenHeightCm |-> Fine(190000),
   viewingDistanceCm |-> Fine(600000)]

\* 100, the number of centimetres in a world unit
Hundred == Fine(1000000)

\* 0.1, the floor of the head distance
MinDistance == Fine(1000)

\* Math.tan(DEG2RAD * 0.5 * 45) of THREE.PerspectiveCamera
TanHalfFov == Fine(4142)

\* container.clientWidth / container.clientHeight for pixel sizes
Aspect(width, height) ==
  IF height = 0
  THEN IF width = 0 THEN NumNaN ELSE NumInfinity(1)
  ELSE Fine(RoundDiv(width * 10000, height))

\* arguments of makePerspective
Frustum(left, right, bottom, top, near, far) ==
  [left |-> left, right |-> right, bottom |-> bottom, top |-> top,
   near |-> near, far |-> far]

Vector3(x, y, z) == [x |-> x, y |-> y, z |-> z]

\* projection of new THREE.PerspectiveCamera(45, aspect, near, far): the
\* symmetric frustum of PerspectiveCamera.updateProjectionMatrix
SymmetricFrustum(aspect, near, far) ==
  LET top == FineTimes(near, TanHalfFov)
      height == FineTimes(Fine(20000), top)
      width == FineTimes(aspect, height)
      left == FineTimes(Fine(-5000), width)
  IN Frustum(left, FineMinus(left, FineNeg(width)),
             FineMinus(top, height), top, near, far)

\* the part of a SmoothedHeadPose the camera reads, in centimetres
WorldPose(worldX, worldY, worldZ) ==
  [worldX |-> worldX, worldY |-> worldY, worldZ |-> worldZ]

PoseCentre == WorldPose(Fine(0), Fine(0), Fine(600000))
PoseRightNear == WorldPose(Fine(-170000), Fine(95000), Fine(200000))
PoseLeftFar == WorldPose(Fine(85000), Fine(-47500), Fine(2000000))
PoseAtScreen == WorldPose(Fine(85000), Fine(0), Fine(0))
PoseBehind == WorldPose(Fine(0), Fine(0), Fine(-250000))
PoseInfinite == WorldPose(Fine(0), Fine(0), NumInfinity(1))
PoseNaN == WorldPose(NumNaN, NumNaN, NumNaN)

\* poses with finite coordinates, and all poses given to updateFromHeadPose
FinitePoses == {PoseCentre, PoseRightNear, PoseLeftFar, PoseAtScreen, PoseBehind}
CameraPoses == FinitePoses \cup {PoseInfinite, PoseNaN}

\* arguments of updateSettings
FastMovement == [movementScale |-> Fine(30000)]
NoMovement ==
  [axisStrength |-> [x |-> Fine(0), y |-> Fine(0), z |-> Fine(0)]]
DeepAxis ==
  [axisStrength |-> [x |-> Fine(10000), y |-> Fine(5000), z |-> Fine(20000)]]
FarBeforeNear == [farPlane |-> Fine(50)]
SettingsPartials == {FastMovement, NoMovement, DeepAxis, FarBeforeNear}

\* arguments of updateScreenDimensions, in centimetres
ScreenDimensions ==
  {<<Fine(340000), Fine(190000)>>, <<Fine(600000), Fine(340000)>>,
   <<Fine(0), Fine(190000)>>}

\* arguments of setHeadPosition, in world units
HeadPositions ==
  {Vector3(Fine(0), Fine(0), Fine(6000)),
   Vector3(Fine(1000), Fine(-500), Fine(500)),
   Vector3(Fine(0), Fine(0), NumNaN)}

\* arguments of handleResize and of the constructor, in pixels
InitialSizes == {<<1920, 1080>>, <<800, 800>>}
ContainerSizes == InitialSizes \cup {<<800, 0>>}

CameraOp(op, arg) == [op |-> op, arg |-> arg]

\* mutation of UpdatedCamera: the right plane is shifted the wrong way
UpdatedCameraMirrored(cam, sets, width, height, hx, hy, hz) ==
  LET halfW == FineDivide(width, Fine(20000))
      halfH == FineDivide(height, Fine(20000))
      nearOverDist == FineDivide(sets.nearPlane, hz)
  IN [cam EXCEPT !.projectionMatrix =
                   Frustum(FineTimes(FineMinus(FineNeg(halfW), hx), nearOverDist),
                           FineTimes(FineMinus(halfW, FineNeg(hx)), nearOverDist),
                           FineTimes(FineMinus(FineNeg(halfH), hy), nearOverDist),
                           FineTimes(FineMinus(halfH, hy), nearOverDist),
                           sets.nearPlane, sets.farPlane),
                 !.position = Vector3(hx, hy, hz)]

\* updateProjectionMatrix, lines 94-117: the camera after the frustum was
\* computed from the head offsets and applied, and the camera was moved
UpdatedCamera(cam, sets, width, height, hx, hy, hz) ==
  LET halfW == FineDivide(width, Fine(20000))
      halfH == FineDivide(height, Fine(20000))
      near == sets.nearPlane
      far == sets.farPlane
      dist == hz
      nearOverDist == FineDivide(near, dist)
      left == FineTimes(FineMinus(FineNeg(halfW), hx), nearOverDist)
      right == FineTimes(FineMinus(halfW, hx), nearOverDist)
      bottom == FineTimes(FineMinus(FineNeg(halfH), hy), nearOverDist)
      top == FineTimes(FineMinus(halfH, hy), nearOverDist)
  IN [cam EXCEPT !.projectionMatrix = Frustum(left, right, bottom, top, near, far),
                 !.position = Vector3(hx, hy, dist)]

\* the camera built by the constructor, lines 32-49
ConstructedCamera(aspect, sets, cal) ==
  [aspect |-> aspect,
   near |-> sets.nearPlane,
   far |-> sets.farPlane,
   projectionMatrix |-> SymmetricFrustum(aspect, sets.nearPlane, sets.farPlane),
   position |-> Vector3(Fine(0), Fine(0), FineDivide(cal.viewingDistanceCm, Hundred))]

\* new OffAxisCamera(aspect), lines 28-49
CameraConstructed(size) ==
  /\ settings = DEFAULT_SETTINGS
  /\ screenWidth = FineDivide(CameraCalibration.screenWidthCm, Hundred)
  /\ screenHeight = FineDivide(CameraCalibration.screenHeightCm, Hundred)
  /\ headX = Fine(0)
  /\ headY = Fine(0)
  /\ headZ = Fine(6000)
  /\ camera = ConstructedCamera(Aspect(size[1], size[2]), DEFAULT_SETTINGS,
                                CameraCalibration)
  /\ cameraOp = CameraOp("constructor", size)

CameraIdle == CameraConstructed(<<1920, 1080>>)

\* no OffAxisCamera
CameraAbsent ==
  /\ settings = NotConstructed
  /\ screenWidth = NotConstructed
  /\ screenHeight = NotConstructed
  /\ headX = NotConstructed
  /\ headY = NotConstructed
  /\ headZ = NotConstructed
  /\ camera = NotConstructed
  /\ cameraOp = NotConstructed

\* ------------------------------------------------- transport: helpers
RECURSIVE Pow2(_)
Pow2(n) == IF n = 0 THEN 1 ELSE 2 * Pow2(n - 1)

Min(a, b) == IF a <= b THEN a ELSE b

Slots == 1..MaxSockets

\* A slot holds no object the program or the network can still act on.
FreeSlot(socks, s) == socks[s].readyState = CLOSED /\ ~socks[s].handlers

\* WebSocket.close(): CONNECTING and OPEN sockets start closing, others ignore it.
WsClose(socks, s) ==
  [socks EXCEPT ![s].readyState = IF @ < CLOSING THEN CLOSING ELSE @]

\* mutation of BackoffDelay: the cap is lost
BackoffDelayUncapped(attempt) == reconnectDelay * Pow2(attempt)

\* Math.min(reconnectDelay * 2 ** attempt, maxReconnectDelay)
BackoffDelay(attempt) == Min(reconnectDelay * Pow2(attempt), maxReconnectDelay)

\* mutation of AttemptAfterOpen: the counter survives the open
AttemptAfterOpenKept(attempt) == attempt

\* ws.onopen, line 75: the attempt counter after a successful open
AttemptAfterOpen(attempt) == 0

\* mutation of ConnectReturnsEarly: connect() replaces an open socket too
ConnectNeverReturnsEarly(socks, ws) == FALSE

\* the early return of connect()
ConnectReturnsEarly(socks, ws) == ws /= 0 /\ socks[ws].readyState = OPEN

\* connect(), lines 55-64: detach the handlers of the current socket, close it
ConnectCleanup(socks, ws) ==
  IF ws = 0 THEN socks
  ELSE LET detached == [socks EXCEPT ![ws].handlers = FALSE]
       IN IF socks[ws].readyState < CLOSING THEN WsClose(detached, ws) ELSE detached

CanConnect(socks, ws) ==
  \/ ConnectReturnsEarly(socks, ws)
  \/ \E s \in Slots : FreeSlot(ConnectCleanup(socks, ws), s)

\* connect(): the refs after the call
ConnectResult(socks, ws, intent) ==
  IF ConnectReturnsEarly(socks, ws)
  THEN [sockets |-> socks, wsRef |-> ws, intentionalCloseRef |-> intent]
  ELSE LET cleaned == ConnectCleanup(socks, ws)
           new == CHOOSE s \in Slots :
                    /\ FreeSlot(cleaned, s)
                    /\ \A r \in Slots : FreeSlot(cleaned, r) => s <= r
       IN [sockets |-> [cleaned EXCEPT ![new] = [readyState |-> CONNECTING,
                                                 handlers |-> TRUE]],
           wsRef |-> new,
           intentionalCloseRef |-> FALSE]

\* setTimeout: the smallest handle not pending
NewTimerId(ts) ==
  CHOOSE i \in 1..(MaxTimers + 1) :
    /\ \A t \in ts : t.id /= i
    /\ \A j \in 1..(MaxTimers + 1) : (\A t \in ts : t.id /= j) => i <= j

\* clearTimeout(handle)
ClearTimeout(ts, handle) == {t \in ts : t.id /= handle}

\* connection state of the session, read off the current socket
ConnState ==
  IF wsRef = 0 THEN "Disconnected"
  ELSE CASE sockets[wsRef].readyState = CONNECTING -> "Connecting"
         [] sockets[wsRef].readyState = OPEN -> "Open"
         [] sockets[wsRef].readyState = CLOSING -> "Closing"
         [] OTHER -> "Disconnected"

\* ------------------------------------------------- transport: Init
\* the transport of a client that has not mounted the hook
TransportIdle ==
  /\ autoReconnect = TRUE
  /\ sockets = [s \in Slots |-> [readyState |-> CLOSED, handlers |-> FALSE]]
  /\ wsRef = 0
  /\ reconnectAttemptRef = 0
  /\ reconnectTimerRef = 0
  /\ intentionalCloseRef = FALSE
  /\ connected = FALSE
  /\ timers = {}
  /\ mounted = FALSE
  /\ delays = <<>>
  /\ failsBeforeOpen = -1
  /\ userClosed = FALSE
  /\ nextPayload = 1
  /\ sent = {}
  /\ dropped = {}
  /\ sendThrew = FALSE

\* no useWebSocket
TransportAbsent ==
  /\ autoReconnect = NotConstructed
  /\ sockets = NotConstructed
  /\ wsRef = NotConstructed
  /\ reconnectAttemptRef = NotConstructed
  /\ reconnectTimerRef = NotConstructed
  /\ intentionalCloseRef = NotConstructed
  /\ connected = NotConstructed
  /\ timers = NotConstructed
  /\ mounted = NotConstructed
  /\ delays = NotConstructed
  /\ failsBeforeOpen = NotConstructed
  /\ userClosed = NotConstructed
  /\ nextPayload = NotConstructed
  /\ sent = NotConstructed
  /\ dropped = NotConstructed
  /\ sendThrew = NotConstructed

\* State after the hook mounted: the effect has run connect() once.
InitT ==
  /\ autoReconnect \in BOOLEAN
  /\ sockets = [s \in Slots |-> IF s = 1
                                THEN [readyState |-> CONNECTING, handlers |-> TRUE]
                                ELSE [readyState |-> CLOSED, handlers |-> FALSE]]
  /\ wsRef = 1
  /\ reconnectAttemptRef = 0
  /\ reconnectTimerRef = 0
  /\ intentionalCloseRef = FALSE
  /\ connected = FALSE
  /\ timers = {}
  /\ mounted = TRUE
  /\ delays = <<>>
  /\ failsBeforeOpen = -1
  /\ userClosed = FALSE
  /\ nextPayload = 1
  /\ sent = {}
  /\ dropped = {}
  /\ sendThrew = FALSE
  /\ DecoderAbsent
  /\ TrackerAbsent
  /\ CameraAbsent
  /\ WorldAbsent
  /\ AppAbsent
  /\ DetectionAbsent
  /\ SourcesAbsent
  /\ CalibrationAbsent
  /\ PlanesAbsent
  /\ OverlaysAbsent

\* ------------------------------------------------- transport: actions
\* A pending timer fires; every timer's callback is connect.
TimerFire(t) ==
  /\ t \in timers
  /\ CanConnect(sockets, wsRef)
  /\ LET r == ConnectResult(sockets, wsRef, intentionalCloseRef)
     IN /\ sockets' = r.sockets
        /\ wsRef' = r.wsRef
        /\ intentionalCloseRef' = r.intentionalCloseRef
  /\ timers' = timers \ {t}
  /\ reconnectTimerRef' = IF reconnectTimerRef = t.id THEN Stale ELSE reconnectTimerRef
  /\ UNCHANGED <<autoReconnect, reconnectAttemptRef, connected, mounted, delays,
                 failsBeforeOpen, userClosed, nextPayload, sent, dropped, sendThrew>>
  /\ UNCHANGED <<dvars, pvars, cvars, wvars, avars, lvars, svars, kvars, nvars, yvars>>

\* The network opens a connecting socket; ws.onopen runs if still attached.
SocketOpen(s) ==
  /\ sockets[s].readyState = CONNECTING
  /\ sockets' = [sockets EXCEPT ![s].readyState = OPEN]
  /\ IF sockets[s].handlers
     THEN /\ connected' = TRUE
          /\ reconnectAttemptRef' = AttemptAfterOpen(reconnectAttemptRef)
          /\ failsBeforeOpen' = Len(delays)
          /\ delays' = <<>>
     ELSE /\ UNCHANGED <<connected, reconnectAttemptRef, failsBeforeOpen, delays>>
  /\ UNCHANGED <<autoReconnect, wsRef, reconnectTimerRef, intentionalCloseRef,
                 timers, mounted, userClosed, nextPayload, sent, dropped, sendThrew>>
  /\ UNCHANGED <<dvars, pvars, cvars, wvars, avars, lvars, svars, kvars, nvars, yvars>>

\* The peer starts the closing handshake of an open socket.
PeerClosing(s) ==
  /\ sockets[s].readyState = OPEN
  /\ sockets' = [sockets EXCEPT ![s].readyState = CLOSING]
  /\ UNCHANGED <<autoReconnect, wsRef, reconnectAttemptRef, reconnectTimerRef,
                 intentionalCloseRef, connected, timers, mounted, delays,
                 failsBeforeOpen, userClosed, nextPayload, sent, dropped, sendThrew>>
  /\ UNCHANGED <<dvars, pvars, cvars, wvars, avars, lvars, svars, kvars, nvars, yvars>>

\* ws.onclose, lines 82-89: is a reconnect scheduled?
SchedulesReconnect == autoReconnect /\ ~intentionalCloseRef

\* The socket reaches CLOSED (failed connect, lost connection or finished
\* handshake); ws.onclose runs if still attached.
SocketClosedWithin(s, cap) ==
  /\ sockets[s].readyState /= CLOSED
  /\ sockets' = [sockets EXCEPT ![s].readyState = CLOSED]
  /\ IF sockets[s].handlers
     THEN /\ connected' = FALSE
          /\ IF SchedulesReconnect
             THEN /\ reconnectAttemptRef < MaxAttempt
                  /\ Cardinality(timers) < cap
                  /\ LET delay == BackoffDelay(reconnectAttemptRef)
                         id == NewTimerId(timers)
                     IN /\ reconnectAttemptRef' = reconnectAttemptRef + 1
                        /\ timers' = timers \cup {[id |-> id, kind |-> "backoff"]}
                        /\ reconnectTimerRef' = id
                        /\ delays' = Append(delays, delay)
             ELSE /\ UNCHANGED <<reconnectAttemptRef, timers, reconnectTimerRef, delays>>
     ELSE /\ UNCHANGED <<connected, reconnectAttemptRef, timers, reconnectTimerRef, delays>>
  /\ UNCHANGED <<autoReconnect, wsRef, intentionalCloseRef, mounted,
                 failsBeforeOpen, userClosed, nextPayload, sent, dropped, sendThrew>>
  /\ UNCHANGED <<dvars, pvars, cvars, wvars, avars, lvars, svars, kvars, nvars, yvars>>

\* the socket reaches CLOSED, with at most MaxTimers timers pending
SocketClosed(s) == SocketClosedWithin(s, MaxTimers)

\* mutation of SendTransmits: any socket object is written to
SendTransmitsAnySocket(socks, ws) == ws /= 0

\* send(), line 106: the guard of the transmission
SendTransmits(socks, ws) == ws /= 0 /\ socks[ws].readyState = OPEN

\* WebSocket.send throws InvalidStateError on a socket that is still connecting
WsSendThrows(socks, ws) == socks[ws].readyState = CONNECTING

\* send(data); sendJson(data) is send(JSON.stringify(data)).
Send(viaJson) ==
  /\ mounted
  /\ nextPayload <= MaxSends
  /\ nextPayload' = nextPayload + 1
  /\ IF SendTransmits(sockets, wsRef)
     THEN IF WsSendThrows(sockets, wsRef)
          THEN sendThrew' = TRUE /\ sent' = sent
          ELSE sent' = sent \cup {nextPayload} /\ sendThrew' = sendThrew
     ELSE UNCHANGED <<sent, sendThrew>>
  /\ dropped' = IF ConnState /= "Open" THEN dropped \cup {nextPayload} ELSE dropped
  /\ UNCHANGED <<autoReconnect, sockets, wsRef, reconnectAttemptRef,
                 reconnectTimerRef, intentionalCloseRef, connected, timers,
                 mounted, delays, failsBeforeOpen, userClosed>>
  /\ UNCHANGED <<dvars, pvars, cvars, wvars, avars, lvars, svars, kvars, nvars, yvars>>

\* close(), lines 116-124: the pending timers after the call
CloseTimers(ts, ref) == IF ref /= 0 THEN ClearTimeout(ts, ref) ELSE ts

\* close()
Close ==
  /\ mounted
  /\ intentionalCloseRef' = TRUE
  /\ timers' = CloseTimers(timers, reconnectTimerRef)
  /\ reconnectTimerRef' = 0
  /\ sockets' = IF wsRef /= 0 THEN WsClose(sockets, wsRef) ELSE sockets
  /\ connected' = FALSE
  /\ userClosed' = TRUE
  /\ UNCHANGED <<autoReconnect, wsRef, reconnectAttemptRef, mounted, delays,
                 failsBeforeOpen, nextPayload, sent, dropped, sendThrew>>
  /\ UNCHANGED <<dvars, pvars, cvars, wvars, avars, lvars, svars, kvars, nvars, yvars>>

\* reconnect(): close(), then setTimeout(connect, 100) whose handle is dropped
ReconnectWithin(cap) ==
  /\ mounted
  /\ LET cleared == CloseTimers(timers, reconnectTimerRef)
     IN /\ Cardinality(cleared) < cap
        /\ timers' = cleared \cup {[id |-> NewTimerId(cleared),
                                    kind |-> "reconnect"]}
  /\ intentionalCloseRef' = TRUE
  /\ reconnectTimerRef' = 0
  /\ sockets' = IF wsRef /= 0 THEN WsClose(sockets, wsRef) ELSE sockets
  /\ connected' = FALSE
  /\ userClosed' = FALSE
  /\ UNCHANGED <<autoReconnect, wsRef, reconnectAttemptRef, mounted, delays,
                 failsBeforeOpen, nextPayload, sent, dropped, sendThrew>>
  /\ UNCHANGED <<dvars, pvars, cvars, wvars, avars, lvars, svars, kvars, nvars, yvars>>

\* reconnect(), with at most MaxTimers timers pending
Reconnect == ReconnectWithin(MaxTimers)

\* the effect's cleanup, lines 134-142: timers and ref after it
CleanupTimers(ts, ref) == IF ref /= 0 THEN ClearTimeout(ts, ref) ELSE ts
CleanupRef(ref) == IF ref /= 0 THEN Stale ELSE ref

\* The url (hence connect) changed: cleanup of the old effect, then connect().
EffectRerun ==
  /\ mounted
  /\ LET closedSocks == IF wsRef /= 0 THEN WsClose(sockets, wsRef) ELSE sockets
     IN /\ CanConnect(closedSocks, wsRef)
        /\ LET r == ConnectResult(closedSocks, wsRef, TRUE)
           IN /\ sockets' = r.sockets
              /\ wsRef' = r.wsRef
              /\ intentionalCloseRef' = r.intentionalCloseRef
  /\ timers' = CleanupTimers(timers, reconnectTimerRef)
  /\ reconnectTimerRef' = CleanupRef(reconnectTimerRef)
  /\ userClosed' = FALSE
  /\ UNCHANGED <<autoReconnect, reconnectAttemptRef, connected, mounted, delays,
                 failsBeforeOpen, nextPayload, sent, dropped, sendThrew>>
  /\ UNCHANGED <<dvars, pvars, cvars, wvars, avars, lvars, svars, kvars, nvars, yvars>>

\* The component unmounts: cleanup only.
Unmount ==
  /\ mounted
  /\ mounted' = FALSE
  /\ intentionalCloseRef' = TRUE
  /\ timers' = CleanupTimers(timers, reconnectTimerRef)
  /\ reconnectTimerRef' = CleanupRef(reconnectTimerRef)
  /\ sockets' = IF wsRef /= 0 THEN WsClose(sockets, wsRef) ELSE sockets
  /\ UNCHANGED <<autoReconnect, wsRef, reconnectAttemptRef, connected, delays,
                 failsBeforeOpen, userClosed, nextPayload, sent, dropped, sendThrew>>
  /\ UNCHANGED <<dvars, pvars, cvars, wvars, avars, lvars, svars, kvars, nvars, yvars>>

NextT ==
  \/ \E t \in timers : TimerFire(t)
  \/ \E s \in Slots : SocketOpen(s)
  \/ \E s \in Slots : PeerClosing(s)
  \/ \E s \in Slots : SocketClosed(s)
  \/ Close
  \/ Reconnect
  \/ EffectRerun
  \/ Unmount

SpecTransport == InitT /\ [][NextT]_vars

\* The transport together with its callers of send / sendJson.
NextSend ==
  \/ NextT
  \/ \E j \in BOOLEAN : Send(j)

SpecSend == InitT /\ [][NextSend]_vars

\* The transport with room for MaxPending timers at a time: the timer of a
\* reconnect() beside a backoff timer, or two of either.
NextRetry ==
  \/ \E t \in timers : TimerFire(t)
  \/ \E s \in Slots : SocketOpen(s)
  \/ \E s \in Slots : PeerClosing(s)
  \/ \E s \in Slots : SocketClosedWithin(s, MaxPending)
  \/ Close
  \/ ReconnectWithin(MaxPending)
  \/ EffectRerun
  \/ Unmount

SpecRetry == InitT /\ [][NextRetry]_vars

\* ------------------------------------------------- frame decoder: actions
\* mutation of GetTextureEntry: one busy flag is shared by all the sources
GetTextureEntryShared(tx, src) ==
  LET entry == IF tx[src].exists THEN tx[src] ELSE FreshEntry(NewTexture(src))
  IN [entry EXCEPT !.processing = \E s \in Sources : tx[s].exists /\ tx[s].processing]

\* getTexture(sourceId): the entry of the map, created if there is none
GetTextureEntry(tx, src) ==
  IF tx[src].exists THEN tx[src] ELSE FreshEntry(NewTexture(src))

\* getTexture(sourceId)
TextureGot(src) ==
  /\ textures' = [textures EXCEPT ![src] = GetTextureEntry(textures, src)]
  /\ lastOp' = Op("getTexture", "texture", "", textures'[src].texture, <<>>)
  /\ UNCHANGED decodes

\* getTexture(sourceId), in a decoder that stands alone
GetTexture(src) ==
  /\ TextureGot(src)
  /\ UNCHANGED <<tvars, pvars, cvars, wvars, avars, lvars, svars, kvars, nvars, yvars>>

\* mutation of HeaderReject: the declared payload length is not checked
HeaderRejectNoLength(buf) ==
  IF buf.byteLength < HEADER_SIZE THEN "short"
  ELSE IF buf.type /= 1 THEN "type"
  ELSE ""

\* processFrame, lines 66-87: why a buffer is rejected before any entry is touched
HeaderReject(buf) ==
  IF buf.byteLength < HEADER_SIZE THEN "short"
  ELSE IF buf.type /= 1 THEN "type"
  ELSE IF buf.byteLength < HEADER_SIZE + buf.dataLen THEN "truncated"
  ELSE ""

\* processFrame, line 96
StaleFrame(buf, entry) == Float64Leq(buf.timestamp, entry.lastTimestamp)

\* processFrame(sourceId, data) up to its await
FrameProcessed(src, buf) ==
  /\ LET done(ret, why) == lastOp' = Op("processFrame", ret, why, NoTexture, <<>>)
     IN IF HeaderReject(buf) /= ""
        THEN /\ done("false", HeaderReject(buf))
             /\ UNCHANGED <<textures, decodes>>
        ELSE LET entry == GetTextureEntry(textures, src)
             IN IF StaleFrame(buf, entry)
                THEN /\ done("false", "stale")
                     /\ textures' = [textures EXCEPT ![src] = entry]
                     /\ UNCHANGED decodes
                ELSE IF entry.processing
                THEN /\ done("false", "busy")
                     /\ textures' = [textures EXCEPT ![src] = entry]
                     /\ UNCHANGED decodes
                ELSE /\ done("pending", "")
                     /\ textures' = [textures EXCEPT ![src] =
                                       [entry EXCEPT !.processing = TRUE]]
                     /\ decodes' = decodes (+)
                          SetToBag({Decode(src, buf.timestamp, buf.dims, FALSE)})

\* processFrame(sourceId, data), in a decoder that stands alone
ProcessFrame(src, buf) ==
  /\ FrameProcessed(src, buf)
  /\ UNCHANGED <<tvars, pvars, cvars, wvars, avars, lvars, svars, kvars, nvars, yvars>>

\* mutation of DimensionChange: a change of size is never noticed
DimensionChangeNever(entry, d) == FALSE

\* line 113
DimensionChange(entry, d) ==
  entry.currentWidth /= d.dims[1] \/ entry.currentHeight /= d.dims[2]

\* lines 113-129: the calls of the install block in program order
InstallCalls(entry, d) ==
  (IF DimensionChange(entry, d) THEN <<"texture.dispose">> ELSE <<>>)
    \o (IF entry.lastBitmap /= NoBitmap THEN <<"lastBitmap.close">> ELSE <<>>)
    \o <<"texture.image">>

\* mutation of InstalledEntry: the bitmap is wrapped in a new texture object
InstalledEntryNewTexture(entry, d) ==
  [entry EXCEPT !.texture = Texture(@[1], @[2] + 1),
                !.lastBitmap = Bitmap(d.ts, d.dims),
                !.image = Bitmap(d.ts, d.dims),
                !.lastTimestamp = d.ts,
                !.processing = FALSE]

\* lines 113-133: the entry after a decoded bitmap was installed
InstalledEntry(entry, d) ==
  [entry EXCEPT !.currentWidth = IF DimensionChange(entry, d) THEN d.dims[1] ELSE @,
                !.currentHeight = IF DimensionChange(entry, d) THEN d.dims[2] ELSE @,
                !.lastBitmap = Bitmap(d.ts, d.dims),
                !.image = Bitmap(d.ts, d.dims),
                !.lastTimestamp = d.ts,
                !.processing = FALSE]

\* createImageBitmap resolved: the rest of the try block. The entry of an
\* orphaned decode is referenced by nothing else: its bitmap is installed in
\* the removed entry (why = "orphan"), and nothing more of it is tracked.
DecodeResolved(d) ==
  /\ BagIn(d, decodes)
  /\ decodes' = decodes (-) SetToBag({d})
  /\ textures' = IF d.orphan THEN textures
                 ELSE [textures EXCEPT ![d.src] = InstalledEntry(@, d)]
  /\ lastOp' = IF d.orphan
                THEN Op("decodeDone", "true", "orphan", NoTexture, <<"texture.image">>)
                ELSE Op("decodeDone", "true", "", NoTexture,
                        InstallCalls(textures[d.src], d))

\* createImageBitmap resolved, in a decoder that stands alone
DecodeDone(d) ==
  /\ DecodeResolved(d)
  /\ UNCHANGED <<tvars, pvars, cvars, wvars, avars, lvars, svars, kvars, nvars, yvars>>

\* mutation of FailedEntry: the busy flag is not released
FailedEntryStuck(entry) == entry

\* lines 142-146: the entry after the catch block
FailedEntry(entry) == [entry EXCEPT !.processing = FALSE]

\* createImageBitmap rejected: the catch block
DecodeRejected(d) ==
  /\ BagIn(d, decodes)
  /\ decodes' = decodes (-) SetToBag({d})
  /\ textures' = IF d.orphan THEN textures
                 ELSE [textures EXCEPT ![d.src] = FailedEntry(@)]
  /\ lastOp' = Op("decodeFail", "false", "decode", NoTexture, <<>>)

\* createImageBitmap rejected, in a decoder that stands alone
DecodeFail(d) ==
  /\ DecodeRejected(d)
  /\ UNCHANGED <<tvars, pvars, cvars, wvars, avars, lvars, svars, kvars, nvars, yvars>>

\* mutation of DisposedTextures: disposeTexture clears the whole map
DisposedTexturesAll(tx, srcs) == [s \in Sources |-> Absent]

\* textures.delete(sourceId) / textures.clear(): the map without the
\* entries of srcs
DisposedTextures(tx, srcs) ==
  [s \in Sources |-> IF s \in srcs THEN Absent ELSE tx[s]]

\* disposeTexture(sourceId): lastBitmap.close() and texture.dispose() act on
\* objects that leave the map with the entry
TextureDisposed(src) ==
  /\ textures' = DisposedTextures(textures, {src})
  /\ decodes' = IF textures[src].exists THEN Orphaned(decodes, {src}) ELSE decodes
  /\ OrphanCount(decodes') <= MaxOrphans
  /\ lastOp' = Op("disposeTexture", "",
                  IF textures[src].exists THEN "entry" ELSE "absent", NoTexture, <<>>)

\* disposeTexture(sourceId), in a decoder that stands alone
DisposeTexture(src) ==
  /\ TextureDisposed(src)
  /\ UNCHANGED <<tvars, pvars, cvars, wvars, avars, lvars, svars, kvars, nvars, yvars>>

\* disposeAll()
DisposeAll ==
  /\ textures' = DisposedTextures(textures, Sources)
  /\ decodes' = Orphaned(decodes, {s \in Sources : textures[s].exists})
  /\ OrphanCount(decodes') <= MaxOrphans
  /\ lastOp' = Op("disposeAll", "",
                  IF \E s \in Sources : textures[s].exists THEN "entry" ELSE "absent",
                  NoTexture, <<>>)
  /\ UNCHANGED <<tvars, pvars, cvars, wvars, avars, lvars, svars, kvars, nvars, yvars>>

\* mutation of StreamClosedEntry: the texture falls back to the placeholder
StreamClosedEntryPlaceholder(entry) == [entry EXCEPT !.image = Placeholder]

\* useVideoSources, ws.onclose of a stream socket: the handler touches
\* streamSocketsRef and the source list, and leaves the entry as it is
StreamClosedEntry(entry) == entry

\* ws.onclose of the stream socket of a source
StreamCloseHandled(src) ==
  /\ textures' = [textures EXCEPT ![src] = StreamClosedEntry(@)]
  /\ lastOp' = Op("streamClose", "", "", NoTexture, <<>>)
  /\ UNCHANGED decodes

\* ws.onclose of the stream socket of a source, in a decoder that stands alone
StreamSocketClosed(src) ==
  /\ StreamCloseHandled(src)
  /\ UNCHANGED <<tvars, pvars, cvars, wvars, avars, lvars, svars, kvars, nvars, yvars>>

\* The transport is not part of the decoder's behaviours.
InitD ==
  /\ DecoderIdle
  /\ TrackerAbsent
  /\ CameraAbsent
  /\ WorldAbsent
  /\ AppAbsent
  /\ DetectionAbsent
  /\ SourcesAbsent
  /\ CalibrationAbsent
  /\ PlanesAbsent
  /\ OverlaysAbsent
  /\ TransportAbsent

NextD ==
  \/ \E src \in Sources : GetTexture(src)
  \/ \E src \in Sources, buf \in Buffers : ProcessFrame(src, buf)
  \/ \E d \in DOMAIN decodes : DecodeDone(d)
  \/ \E d \in DOMAIN decodes : DecodeFail(d)
  \/ \E src \in Sources : DisposeTexture(src)
  \/ DisposeAll
  \/ \E src \in Sources : StreamSocketClosed(src)

SpecDecoder == InitD /\ [][NextD]_vars

\* ------------------------------------------------- video sources: actions

\* connectSource(sourceId), lines 96-149: the socket and the map
StreamConnected(src) ==
  IF streamSocketsRef[src] # 0
  THEN UNCHANGED <<streamSocketsRef, streams>>
  ELSE /\ Len(streams) < MaxStreams
       /\ streams' = Append(streams, [src |-> src, readyState |-> CONNECTING])
       /\ streamSocketsRef' = [streamSocketsRef EXCEPT ![src] = Len(streams')]

\* connectSource(sourceId), in a hook that stands alone
ConnectSource(src) ==
  /\ StreamConnected(src)
  /\ referenced' = [referenced EXCEPT ![src] = TRUE]
  /\ sourceOp' = SourceOp("connectSource", src)
  /\ UNCHANGED dvars
  /\ UNCHANGED <<tvars, pvars, cvars, wvars, avars, lvars, kvars, nvars, yvars>>

\* ws.onopen of a stream socket, lines 137-144: the source list only
StreamOpen(id) ==
  /\ id \in DOMAIN streams
  /\ streams[id].readyState = CONNECTING
  /\ streams' = [streams EXCEPT ![id].readyState = OPEN]
  /\ sourceOp' = SourceOp("onopen", streams[id].src)
  /\ UNCHANGED <<streamSocketsRef, referenced>>
  /\ UNCHANGED dvars
  /\ UNCHANGED <<tvars, pvars, cvars, wvars, avars, lvars, kvars, nvars, yvars>>

\* ws.onmessage of a stream socket with a binary frame, lines 107-121. The
\* browser delivers messages on an open socket only.
StreamMessage(id, buf) ==
  /\ id \in DOMAIN streams
  /\ streams[id].readyState = OPEN
  /\ FrameProcessed(streams[id].src, buf)
  /\ sourceOp' = SourceOp("onmessage", streams[id].src)
  /\ UNCHANGED <<streamSocketsRef, streams, referenced>>
  /\ UNCHANGED <<tvars, pvars, cvars, wvars, avars, lvars, kvars, nvars, yvars>>

\* ws.onclose of a stream socket, lines 123-131: the socket has closed, after
\* close() or from the server's side; the handler removes the map's socket
\* of the source id
StreamClose(id) ==
  /\ id \in DOMAIN streams
  /\ streams[id].readyState # CLOSED
  /\ streams' = [streams EXCEPT ![id].readyState = CLOSED]
  /\ streamSocketsRef' = [streamSocketsRef EXCEPT ![streams[id].src] = 0]
  /\ StreamCloseHandled(streams[id].src)
  /\ sourceOp' = SourceOp("onclose", streams[id].src)
  /\ UNCHANGED referenced
  /\ UNCHANGED <<tvars, pvars, cvars, wvars, avars, lvars, kvars, nvars, yvars>>

\* disconnectSource(sourceId), lines 151-158
SourceDisconnected(src) ==
  /\ LET ws == streamSocketsRef[src]
     IN IF ws # 0
        THEN /\ streams' = [streams EXCEPT ![ws].readyState = CLOSING]
             /\ streamSocketsRef' = [streamSocketsRef EXCEPT ![src] = 0]
        ELSE UNCHANGED <<streamSocketsRef, streams>>
  /\ TextureDisposed(src)
  /\ referenced' = [referenced EXCEPT ![src] = FALSE]
  /\ sourceOp' = SourceOp("disconnectSource", src)

\* disconnectSource(sourceId), in a hook that stands alone
DisconnectSource(src) ==
  /\ SourceDisconnected(src)
  /\ UNCHANGED <<tvars, pvars, cvars, wvars, avars, lvars, kvars, nvars, yvars>>

\* getTexture(sourceId) of the hook, lines 160-162
SourceGetTexture(src) ==
  /\ TextureGot(src)
  /\ referenced' = [referenced EXCEPT ![src] = TRUE]
  /\ sourceOp' = SourceOp("getTexture", src)
  /\ UNCHANGED <<streamSocketsRef, streams>>
  /\ UNCHANGED <<tvars, pvars, cvars, wvars, avars, lvars, kvars, nvars, yvars>>

\* a decode of processFrame settles
SourceDecodeSettled(d, ok) ==
  /\ IF ok THEN DecodeResolved(d) ELSE DecodeRejected(d)
  /\ sourceOp' = SourceOp("decode", d.src)
  /\ UNCHANGED <<streamSocketsRef, streams, referenced>>
  /\ UNCHANGED <<tvars, pvars, cvars, wvars, avars, lvars, kvars, nvars, yvars>>

InitV ==
  /\ SourcesIdle
  /\ TransportAbsent
  /\ DecoderIdle
  /\ TrackerAbsent
  /\ CameraAbsent
  /\ WorldAbsent
  /\ AppAbsent
  /\ DetectionAbsent
  /\ CalibrationAbsent
  /\ PlanesAbsent
  /\ OverlaysAbsent

NextV ==
  \/ \E src \in Sources : ConnectSource(src)
  \/ \E id \in StreamIds : StreamOpen(id)
  \/ \E id \in StreamIds, buf \in StreamFrames : StreamMessage(id, buf)
  \/ \E id \in StreamIds : StreamClose(id)
  \/ \E src \in Sources : DisconnectSource(src)
  \/ \E src \in Sources : SourceGetTexture(src)
  \/ \E d \in DOMAIN decodes, ok \in BOOLEAN : SourceDecodeSettled(d, ok)

SpecSources == InitV /\ [][NextV]_vars

\* ------------------------------------------------- head pose tracker: actions
\* mutation of UpdateRejects: only a missing list is rejected
UpdateRejectsOnlyMissing(landmarks) == landmarks.null

\* update, line 310
UpdateRejects(landmarks) == landmarks.null \/ landmarks.length < 468

\* Math.sqrt((q.x - p.x) ** 2 + (q.y - p.y) ** 2)
Distance(p, q) ==
  Num(RoundSqrt((q.x - p.x) * (q.x - p.x) + (q.y - p.y) * (q.y - p.y)))

\* update, lines 312-350: the clamped raw pose. eyeWidth * 0.5 is exact in
\* float64, so rawZ is rounded once, after the division by 0.15.
RawPose(face, cfg, timestamp) ==
  LET rawX == Num(RoundDiv(face.leftEyeInner.x + face.rightEyeInner.x
                             + face.noseTip.x, 3))
      rawY == Num(RoundDiv(face.leftEyeInner.y + face.rightEyeInner.y
                             + face.noseTip.y, 3))
      interOcularPx == Distance(face.leftEyeInner, face.rightEyeInner)
      eyeWidth == Distance(face.leftEyeOuter, face.rightEyeOuter)
      rawZ == Num(RoundDiv((2 * interOcularPx.v + eyeWidth.v) * 100, 2 * 15))
  IN HeadPose(clamp(rawX, cfg.clampX[1], cfg.clampX[2]),
              clamp(rawY, cfg.clampY[1], cfg.clampY[2]),
              clamp(rawZ, cfg.clampZ[1], cfg.clampZ[2]),
              interOcularPx,
              timestamp)

\* update, lines 352-366
SmoothedPose(rawPose, previous, alpha) ==
  IF ~previous.null
  THEN HeadPose(ema(rawPose.x, previous.x, alpha),
                ema(rawPose.y, previous.y, alpha),
                ema(rawPose.z, previous.z, alpha),
                ema(rawPose.interOcularPx, previous.interOcularPx, alpha),
                rawPose.timestamp)
  ELSE rawPose

\* mutation of headPoseToWorldPosition: x is not mirrored
headPoseToWorldUnmirrored(pose, screenWidthCm, screenHeightCm, baseDistanceCm) ==
  [x |-> Times(Minus(pose.x, Num(50)), screenWidthCm),
   y |-> Times(Minus(Num(0), Minus(pose.y, Num(50))), screenHeightCm),
   z |-> Divide(baseDistanceCm, pose.z)]

\* headPoseToWorldPosition, lines 391-407, in hundredths of a centimeter
headPoseToWorldPosition(pose, screenWidthCm, screenHeightCm, baseDistanceCm) ==
  [x |-> Times(Minus(Num(0), Minus(pose.x, Num(50))), screenWidthCm),
   y |-> Times(Minus(Num(0), Minus(pose.y, Num(50))), screenHeightCm),
   z |-> Divide(baseDistanceCm, pose.z)]

\* update(landmarks). The pose is stamped with one reading of the clock.
TrackerUpdated(landmarks) ==
  /\ IF UpdateRejects(landmarks)
     THEN /\ trackerOp' = TrackerOp("update", landmarks, NumNaN, NullPose,
                                    NullResult, 0)
          /\ UNCHANGED <<previousPose, smoothedCount>>
     ELSE LET rawPose == RawPose(landmarks.face, config, now)
              smoothed == SmoothedPose(rawPose, previousPose, config.smoothingFactor)
              cal == data
              world == headPoseToWorldPosition(smoothed, cal.screenWidthCm,
                         cal.screenHeightCm, cal.viewingDistanceCm)
          IN /\ previousPose.null \/ smoothedCount < MaxSmoothed
             /\ previousPose' = smoothed
             /\ smoothedCount' = IF previousPose.null THEN 0 ELSE smoothedCount + 1
             /\ trackerOp' =
                  TrackerOp("update", landmarks, NumNaN, rawPose,
                            SmoothedHeadPose(smoothed, world),
                            IF /\ trackerOp.op = "update"
                               /\ ~trackerOp.ret.null
                               /\ trackerOp.landmarks = landmarks
                            THEN trackerOp.repeats + 1 ELSE 1)
  /\ UNCHANGED <<config, now>>

\* update(landmarks) called on a tracker that stands alone
TrackerUpdate(landmarks) ==
  /\ TrackerUpdated(landmarks)
  /\ UNCHANGED <<tvars, dvars, cvars, wvars, avars, lvars, svars, kvars, nvars, yvars>>

\* reset()
TrackerReset ==
  /\ previousPose' = NullPose
  /\ smoothedCount' = 0
  /\ trackerOp' = TrackerCall("reset")
  /\ UNCHANGED <<config, now>>
  /\ UNCHANGED <<tvars, dvars, cvars, wvars, avars, lvars, svars, kvars, nvars, yvars>>

\* setSmoothingFactor(factor)
SetSmoothingFactor(factor) ==
  /\ config' = [config EXCEPT !.smoothingFactor = clamp(factor, Num(1), Num(100))]
  /\ trackerOp' = TrackerOp("setSmoothingFactor", NullLandmarks, factor,
                            NullPose, NullResult, 0)
  /\ UNCHANGED <<previousPose, smoothedCount, now>>
  /\ UNCHANGED <<tvars, dvars, cvars, wvars, avars, lvars, svars, kvars, nvars, yvars>>

\* setConfig(partial)
SetConfig(partial) ==
  /\ config' = ObjectAssign(config, partial)
  /\ trackerOp' = TrackerCall("setConfig")
  /\ UNCHANGED <<previousPose, smoothedCount, now>>
  /\ UNCHANGED <<tvars, dvars, cvars, wvars, avars, lvars, svars, kvars, nvars, yvars>>

\* State after new HeadPoseTracker(arg). The transport and the decoder are not
\* part of the tracker's behaviours.
InitP ==
  /\ \E arg \in ConstructorArgs : config = ConstructorConfig(arg)
  /\ previousPose = NullPose
  /\ smoothedCount = 0
  /\ trackerOp = TrackerCall("constructor")
  /\ now = 0
  /\ DecoderAbsent
  /\ CameraAbsent
  /\ WorldAbsent
  /\ AppAbsent
  /\ DetectionAbsent
  /\ SourcesAbsent
  /\ CalibrationIdle
  /\ PlanesAbsent
  /\ OverlaysAbsent
  /\ TransportAbsent

\* performance.now() has a finite resolution: the clock moves on by one step
\* of it between some calls and not between others
ClockTick ==
  /\ now < MaxNow
  /\ now' = now + 1
  /\ UNCHANGED <<config, previousPose, smoothedCount, trackerOp>>
  /\ UNCHANGED <<tvars, dvars, cvars, wvars, avars, lvars, svars, kvars, nvars, yvars>>

NextP ==
  \/ \E landmarks \in LandmarkLists : TrackerUpdate(landmarks)
  \/ TrackerReset
  \/ \E factor \in Factors : SetSmoothingFactor(factor)
  \/ \E partial \in ConfigPartials : SetConfig(partial)

SpecTracker == InitP /\ [][NextP]_vars

\* The tracker with its clock running.
NextK ==
  \/ ClockTick
  \/ \E landmarks \in LandmarkLists : TrackerUpdate(landmarks)
  \/ TrackerReset

SpecClock == InitP /\ [][NextK]_vars

\* ------------------------------------------------- world conversion: actions
\* a call headPoseToWorldPosition(pose, screenWidthCm, screenHeightCm,
\* baseDistanceCm), lines 391-407
ConvertHeadPose(pose, screen) ==
  /\ worldCall' = WorldCall("headPoseToWorldPosition", pose, screen,
                            headPoseToWorldPosition(pose, screen[1], screen[2],
                                                    screen[3]))
  /\ UNCHANGED <<tvars, dvars, pvars, cvars, avars, lvars, svars, kvars, nvars, yvars>>

InitW ==
  /\ TransportAbsent
  /\ DecoderAbsent
  /\ TrackerAbsent
  /\ CameraAbsent
  /\ WorldIdle
  /\ AppAbsent
  /\ DetectionAbsent
  /\ SourcesAbsent
  /\ CalibrationAbsent
  /\ PlanesAbsent
  /\ OverlaysAbsent

NextW ==
  \E pose \in ConvertedPoses, screen \in ConvertedCalibrations :
    ConvertHeadPose(pose, screen)

SpecWorld == InitW /\ [][NextW]_vars

\* ------------------------------------------------- off-axis camera: actions
\* updateScreenDimensions, lines 52-55
UpdateScreenDimensions(widthCm, heightCm) ==
  /\ screenWidth' = FineDivide(widthCm, Hundred)
  /\ screenHeight' = FineDivide(heightCm, Hundred)
  /\ cameraOp' = CameraOp("updateScreenDimensions", <<widthCm, heightCm>>)
  /\ UNCHANGED <<settings, headX, headY, headZ, camera>>
  /\ UNCHANGED <<tvars, dvars, pvars, wvars, avars, lvars, svars, kvars, nvars, yvars>>

\* mutation of UpdateSettings: the frustum is recomputed at once
UpdateSettingsRecomputes(partial) ==
  /\ settings' = ObjectAssign(settings, partial)
  /\ camera' = UpdatedCamera([camera EXCEPT !.near = settings'.nearPlane,
                                            !.far = settings'.farPlane],
                             settings', screenWidth, screenHeight,
                             headX, headY, headZ)
  /\ cameraOp' = CameraOp("updateSettings", partial)
  /\ UNCHANGED <<screenWidth, screenHeight, headX, headY, headZ>>
  /\ UNCHANGED <<tvars, dvars, pvars, wvars, avars, lvars, svars, kvars, nvars, yvars>>

\* updateSettings, lines 58-62
UpdateSettings(partial) ==
  /\ settings' = ObjectAssign(settings, partial)
  /\ camera' = [camera EXCEPT !.near = settings'.nearPlane,
                              !.far = settings'.farPlane]
  /\ cameraOp' = CameraOp("updateSettings", partial)
  /\ UNCHANGED <<screenWidth, screenHeight, headX, headY, headZ>>
  /\ UNCHANGED <<tvars, dvars, pvars, wvars, avars, lvars, svars, kvars, nvars, yvars>>

\* mutation of HeadDistance: the movement scale is applied to the distance
HeadDistanceScaled(worldZ, sets) ==
  FineMax(MinDistance,
          FineTimes(FineTimes(FineDivide(worldZ, Hundred), sets.movementScale),
                    sets.axisStrength.z))

\* mutation of HeadDistance: no floor
HeadDistanceNoFloor(worldZ, sets) ==
  FineTimes(FineDivide(worldZ, Hundred), sets.axisStrength.z)

\* line 74: the head distance of a pose
HeadDistance(worldZ, sets) ==
  FineMax(MinDistance, FineTimes(FineDivide(worldZ, Hundred), sets.axisStrength.z))

\* lines 72-73: the lateral head offset of a pose along one axis
HeadOffset(worldC, sets, axis) ==
  FineTimes(FineTimes(FineDivide(worldC, Hundred), sets.movementScale),
            sets.axisStrength[axis])

\* updateFromHeadPose, lines 68-77
UpdatedFromHeadPose(pose) ==
  /\ headX' = HeadOffset(pose.worldX, settings, "x")
  /\ headY' = HeadOffset(pose.worldY, settings, "y")
  /\ headZ' = HeadDistance(pose.worldZ, settings)
  /\ camera' = UpdatedCamera(camera, settings, screenWidth, screenHeight,
                             headX', headY', headZ')
  /\ cameraOp' = CameraOp("updateFromHeadPose", pose)
  /\ UNCHANGED <<settings, screenWidth, screenHeight>>

\* updateFromHeadPose called on a camera that stands alone
UpdateFromHeadPose(pose) ==
  /\ UpdatedFromHeadPose(pose)
  /\ UNCHANGED <<tvars, dvars, pvars, wvars, avars, lvars, svars, kvars, nvars, yvars>>

\* setHeadPosition, lines 80-85
SetHeadPosition(x, y, z) ==
  /\ headX' = x
  /\ headY' = y
  /\ headZ' = FineMax(MinDistance, z)
  /\ camera' = UpdatedCamera(camera, settings, screenWidth, screenHeight,
                             headX', headY', headZ')
  /\ cameraOp' = CameraOp("setHeadPosition", Vector3(x, y, z))
  /\ UNCHANGED <<settings, screenWidth, screenHeight>>
  /\ UNCHANGED <<tvars, dvars, pvars, wvars, avars, lvars, svars, kvars, nvars, yvars>>

\* handleResize, lines 120-123
Resized(width, height) ==
  /\ camera' = UpdatedCamera([camera EXCEPT !.aspect = Aspect(width, height)],
                             settings, screenWidth, screenHeight,
                             headX, headY, headZ)
  /\ cameraOp' = CameraOp("handleResize", <<width, height>>)
  /\ UNCHANGED <<settings, screenWidth, screenHeight, headX, headY, headZ>>

\* handleResize called on a camera that stands alone
HandleResize(width, height) ==
  /\ Resized(width, height)
  /\ UNCHANGED <<tvars, dvars, pvars, wvars, avars, lvars, svars, kvars, nvars, yvars>>

InitC ==
  /\ \E size \in InitialSizes : CameraConstructed(size)
  /\ TransportAbsent
  /\ DecoderAbsent
  /\ TrackerAbsent
  /\ WorldAbsent
  /\ AppAbsent
  /\ DetectionAbsent
  /\ SourcesAbsent
  /\ CalibrationAbsent
  /\ PlanesAbsent
  /\ OverlaysAbsent

NextC ==
  \/ \E dims \in ScreenDimensions : UpdateScreenDimensions(dims[1], dims[2])
  \/ \E partial \in SettingsPartials : UpdateSettings(partial)
  \/ \E pose \in CameraPoses : UpdateFromHeadPose(pose)
  \/ \E pos \in HeadPositions : SetHeadPosition(pos.x, pos.y, pos.z)
  \/ \E size \in ContainerSizes : HandleResize(size[1], size[2])

SpecCamera == InitC /\ [][NextC]_vars

\* ------------------------------------------------- calibration: actions

\* setCalibration(partial), lines 194-201, with save()
CalibrationSet(partial) ==
  LET assigned == ObjectAssign(data, partial)
      resized == \/ ("screenWidthCm" \in DOMAIN partial
                       /\ Truthy(partial.screenWidthCm))
                 \/ ("screenHeightCm" \in DOMAIN partial
                       /\ Truthy(partial.screenHeightCm))
  IN /\ data' = IF resized
                THEN [assigned EXCEPT !.pixelsPerCm = ComputePixelsPerCm(assigned)]
                ELSE assigned
     /\ localStorage' = Stored(data')
     /\ calibrated' = TRUE
     /\ calibrationOp' = CalibrationOp("setCalibration", partial)

\* reset(), lines 203-209
CalibrationReset ==
  /\ data' = [DEFAULT_CALIBRATION EXCEPT
               !.pixelsPerCm = ComputePixelsPerCm(DEFAULT_CALIBRATION)]
  /\ localStorage' = NotStored
  /\ calibrated' = FALSE
  /\ calibrationOp' = CalibrationOp("reset", <<>>)

\* setCalibration, reset and a page load in an app that shows no scene
SetCalibration(partial) ==
  /\ CalibrationSet(partial)
  /\ UNCHANGED <<tvars, dvars, pvars, cvars, wvars, avars, lvars, svars, nvars, yvars>>

Reset ==
  /\ CalibrationReset
  /\ UNCHANGED <<tvars, dvars, pvars, cvars, wvars, avars, lvars, svars, nvars, yvars>>

\* the page is loaded again: new CalibrationManager(), lines 162-167
PageLoad ==
  /\ data' = Loaded(localStorage)
  /\ calibrationOp' = CalibrationOp("constructor", <<>>)
  /\ UNCHANGED <<localStorage, calibrated>>
  /\ UNCHANGED <<tvars, dvars, pvars, cvars, wvars, avars, lvars, svars, nvars, yvars>>

InitCal ==
  /\ CalibrationIdle
  /\ TransportAbsent
  /\ DecoderAbsent
  /\ TrackerAbsent
  /\ CameraAbsent
  /\ WorldAbsent
  /\ AppAbsent
  /\ DetectionAbsent
  /\ SourcesAbsent
  /\ PlanesAbsent
  /\ OverlaysAbsent

NextCal ==
  \/ \E partial \in CalibrationPartials : SetCalibration(partial)
  \/ Reset
  \/ PageLoad

SpecCalibration == InitCal /\ [][NextCal]_vars

\* ------------------------------------------------- tracking pipeline: actions

\* handleResults, DebugOverlay.tsx line 530: the first face has all landmarks
HasFace(faceLandmarks) ==
  Len(faceLandmarks) > 0 /\ faceLandmarks[1].length >= 468

\* The world position of a tracker pose as the camera reads it: the tracker
\* holds centimetres in hundredths, the camera in ten-thousandths.
CameraPose(pose) ==
  LET fine(a) == IF a.kind = "finite" THEN Fine(a.v * 100) ELSE a
  IN WorldPose(fine(pose.world.x), fine(pose.world.y), fine(pose.world.z))

\* mutation of HandleHeadPoseUpdate: without a face the camera goes back to
\* the centre of the screen
HandleHeadPoseUpdateRecentres(pose) ==
  /\ currentHeadPose' = pose
  /\ IF ~pose.null
     THEN UpdatedFromHeadPose(CameraPose(pose))
     ELSE /\ headX' = Fine(0)
          /\ headY' = Fine(0)
          /\ headZ' = Fine(6000)
          /\ camera' = UpdatedCamera(camera, settings, screenWidth, screenHeight,
                                     headX', headY', headZ')
          /\ UNCHANGED <<settings, screenWidth, screenHeight, cameraOp>>

\* handleHeadPoseUpdate, src/unnamed/part_001 lines 84-89, with
\* ThreeView.updateHeadPose and ThreeSceneManager.updateHeadPose; the view
\* is mounted
HandleHeadPoseUpdate(pose) ==
  /\ currentHeadPose' = pose
  /\ IF ~pose.null
     THEN UpdatedFromHeadPose(CameraPose(pose))
     ELSE UNCHANGED cvars

\* handleResults, DebugOverlay.tsx lines 528-554: one tick of the detection
\* loop, from the detector's result to the camera
HandleResults(faceLandmarks) ==
  /\ IF HasFace(faceLandmarks)
     THEN /\ TrackerUpdated(faceLandmarks[1])
          /\ HandleHeadPoseUpdate(trackerOp'.ret)
     ELSE /\ HandleHeadPoseUpdate(NullResult)
          /\ UNCHANGED pvars
  /\ portalOp' = PortalOp("handleResults", faceLandmarks, <<0, 0>>)
  /\ UNCHANGED <<tvars, dvars, wvars, lvars, svars, kvars, nvars, yvars>>

\* the ResizeObserver of the scene, threeScene.ts lines 255-265
ContainerResized(size) ==
  /\ Resized(size[1], size[2])
  /\ portalOp' = PortalOp("handleResize", <<>>, size)
  /\ UNCHANGED currentHeadPose
  /\ UNCHANGED <<tvars, dvars, pvars, wvars, lvars, svars, kvars, nvars, yvars>>

\* State after the app mounted: FaceMeshView holds a tracker made with its
\* smoothingFactor of 0.3, the scene a camera made for its container.
InitA ==
  /\ config = ConstructorConfig(NumberArg(Num(30)))
  /\ previousPose = NullPose
  /\ smoothedCount = 0
  /\ trackerOp = TrackerCall("constructor")
  /\ now = 0
  /\ \E size \in InitialSizes : CameraConstructed(size)
  /\ AppIdle
  /\ TransportAbsent
  /\ DecoderAbsent
  /\ WorldAbsent
  /\ DetectionAbsent
  /\ SourcesAbsent
  /\ CalibrationIdle
  /\ PlanesAbsent
  /\ OverlaysAbsent

NextA ==
  \/ \E faceLandmarks \in DetectionResults : HandleResults(faceLandmarks)
  \/ \E size \in ContainerSizes : ContainerResized(size)

SpecPortal == InitA /\ [][NextA]_vars

\* ------------------------------------------------- detection loop: actions

\* init(), useMonitorDetection.ts lines 177-222: the landmarker has loaded
LandmarkerLoaded ==
  /\ ~landmarker
  /\ landmarker' = TRUE
  /\ UNCHANGED <<rafIdRef, lastTimestampRef, frames, lastFrameId, stopped,
                 detectionOp>>
  /\ UNCHANGED <<tvars, dvars, pvars, cvars, wvars, avars, svars, kvars, nvars, yvars>>

\* detect, lines 232-246, run as `op` with the callbacks `held` still held by
\* the browser; videoReady is video.readyState >= 2
Detect(op, held, videoReady) ==
  LET invoked == videoReady /\ now > lastTimestampRef
  IN /\ lastFrameId < MaxFrames
     /\ lastTimestampRef' = IF invoked THEN now ELSE lastTimestampRef
     /\ lastFrameId' = lastFrameId + 1
     /\ rafIdRef' = lastFrameId'
     /\ frames' = held \cup {lastFrameId'}
     /\ detectionOp' = DetectionOp(op, invoked)

\* startDetection, lines 225-252
StartDetection(videoReady) ==
  /\ IF ~landmarker
     THEN /\ detectionOp' = DetectionOp("startDetection", FALSE)
          /\ UNCHANGED <<rafIdRef, lastTimestampRef, frames, lastFrameId>>
     ELSE Detect("startDetection", frames, videoReady)
  /\ stopped' = FALSE
  /\ UNCHANGED landmarker
  /\ UNCHANGED <<tvars, dvars, pvars, cvars, wvars, avars, svars, kvars, nvars, yvars>>

\* stopDetection, lines 254-260
StopDetection ==
  /\ frames' = IF rafIdRef # 0 THEN frames \ {rafIdRef} ELSE frames
  /\ rafIdRef' = 0
  /\ lastTimestampRef' = -1
  /\ stopped' = TRUE
  /\ detectionOp' = DetectionOp("stopDetection", FALSE)
  /\ UNCHANGED <<landmarker, lastFrameId>>
  /\ UNCHANGED <<tvars, dvars, pvars, cvars, wvars, avars, svars, kvars, nvars, yvars>>

\* the browser runs the animation frame callback `id`
AnimationFrame(id, videoReady) ==
  /\ id \in frames
  /\ Detect("frame", frames \ {id}, videoReady)
  /\ UNCHANGED <<landmarker, stopped>>
  /\ UNCHANGED <<tvars, dvars, pvars, cvars, wvars, avars, svars, kvars, nvars, yvars>>

InitL ==
  /\ DetectionIdle
  /\ TransportAbsent
  /\ DecoderAbsent
  /\ TrackerAbsent
  /\ CameraAbsent
  /\ WorldAbsent
  /\ AppAbsent
  /\ SourcesAbsent
  /\ CalibrationAbsent
  /\ PlanesAbsent
  /\ OverlaysAbsent

NextL ==
  \/ LandmarkerLoaded
  \/ \E videoReady \in BOOLEAN : StartDetection(videoReady)
  \/ StopDetection
  \/ \E id \in 1..MaxFrames, videoReady \in BOOLEAN : AnimationFrame(id, videoReady)
  \/ ClockTick

SpecDetection == InitL /\ [][NextL]_vars

\* ------------------------------------------------- depth planes: actions

\* cleanupPlaneMedia(planeId, sourceId), lines 154-163, for the ids of stream
\* sources (no video:, youtube: or image: prefix) and null
PlaneMediaCleaned(sourceId) ==
  IF sourceId = NoSource
  THEN UNCHANGED <<svars, dvars>>
  ELSE SourceDisconnected(sourceId)

\* assignSourceToPlane(planeId, sourceId), lines 219-243: clearing cleans up
\* the plane's source; assigning connects the new source and takes its
\* texture, and leaves the source the plane had alone
AssignSourceToPlane(plane, sourceId) ==
  /\ depthPlanes[plane].exists
  /\ IF sourceId = NoSource
     THEN PlaneMediaCleaned(depthPlanes[plane].sourceId)
     ELSE /\ StreamConnected(sourceId)
          /\ TextureGot(sourceId)
          /\ referenced' = [referenced EXCEPT ![sourceId] = TRUE]
          /\ sourceOp' = SourceOp("getTexture", sourceId)
  /\ depthPlanes' = [depthPlanes EXCEPT ![plane].sourceId = sourceId]
  /\ planeOp' = PlaneOp("assignSourceToPlane", plane, sourceId)
  /\ UNCHANGED <<tvars, pvars, cvars, wvars, avars, lvars, kvars, yvars>>

\* removeExistingPlane(planeId), lines 271-278
RemoveExistingPlane(plane) ==
  /\ depthPlanes[plane].exists
  /\ PlaneMediaCleaned(depthPlanes[plane].sourceId)
  /\ depthPlanes' = [depthPlanes EXCEPT ![plane] = Plane(FALSE, NoSource)]
  /\ planeOp' = PlaneOp("removeExistingPlane", plane, NoSource)
  /\ UNCHANGED <<tvars, pvars, cvars, wvars, avars, lvars, kvars, yvars>>

\* The App's planes over the video sources hook and its texture manager.
InitN ==
  /\ PlanesIdle
  /\ SourcesIdle
  /\ DecoderIdle
  /\ TransportAbsent
  /\ TrackerAbsent
  /\ CameraAbsent
  /\ WorldAbsent
  /\ AppAbsent
  /\ DetectionAbsent
  /\ CalibrationAbsent
  /\ OverlaysAbsent

NextN ==
  \/ \E plane \in Planes, sourceId \in Sources \cup {NoSource} :
       AssignSourceToPlane(plane, sourceId)
  \/ \E plane \in Planes : RemoveExistingPlane(plane)

SpecPlanes == InitN /\ [][NextN]_vars

\* ------------------------------------------------- video overlays: actions

\* destroy(planeId), lines 104-113: the containers after the call
DestroyedContainers(ovs, cts, plane) ==
  IF ovs[plane] = 0 THEN cts ELSE [cts EXCEPT ![ovs[plane]].inDom = FALSE]

\* destroy(planeId): the map after the call
DestroyedOverlays(ovs, plane) == [ovs EXCEPT ![plane] = 0]

\* createOverlay(planeId, videoId) up to its await, lines 45-48, with
\* loadYouTubeApi, lines 11-35: the call waits for the script unless the api
\* is loaded, and then at a promise that is already resolved
CreateOverlay(plane, videoId) ==
  /\ Len(creating) < MaxCreating
  /\ containers' = DestroyedContainers(overlays, containers, plane)
  /\ overlays' = DestroyedOverlays(overlays, plane)
  /\ apiLoading' = IF apiLoaded THEN apiLoading ELSE TRUE
  /\ creating' = Append(creating, Creating(plane, videoId, apiLoaded))
  /\ overlayOp' = OverlayOp("createOverlay", plane)
  /\ UNCHANGED apiLoaded
  /\ UNCHANGED <<tvars, dvars, pvars, cvars, wvars, avars, lvars, svars, kvars, nvars>>

\* window.onYouTubeIframeAPIReady, lines 23-29: every waiting call is resolved
ApiReady ==
  /\ apiLoading
  /\ apiLoaded' = TRUE
  /\ apiLoading' = FALSE
  /\ creating' = [i \in DOMAIN creating |-> [creating[i] EXCEPT !.resolved = TRUE]]
  /\ overlayOp' = OverlayOp("apiReady", "")
  /\ UNCHANGED <<overlays, containers>>
  /\ UNCHANGED <<tvars, dvars, pvars, cvars, wvars, avars, lvars, svars, kvars, nvars>>

\* createOverlay after its await, lines 50-76: the continuations run in the
\* order in which their promises were resolved, that of the calls
OverlayCreated ==
  /\ creating # <<>>
  /\ Head(creating).resolved
  /\ Len(containers) < MaxContainers
  /\ containers' = Append(containers, [plane |-> Head(creating).plane,
                                       videoId |-> Head(creating).videoId,
                                       inDom |-> TRUE])
  /\ overlays' = [overlays EXCEPT ![Head(creating).plane] = Len(containers')]
  /\ creating' = Tail(creating)
  /\ overlayOp' = OverlayOp("created", Head(creating).plane)
  /\ UNCHANGED <<apiLoaded, apiLoading>>
  /\ UNCHANGED <<tvars, dvars, pvars, cvars, wvars, avars, lvars, svars, kvars, nvars>>

\* destroy(planeId)
Destroy(plane) ==
  /\ containers' = DestroyedContainers(overlays, containers, plane)
  /\ overlays' = DestroyedOverlays(overlays, plane)
  /\ overlayOp' = OverlayOp("destroy", plane)
  /\ UNCHANGED <<apiLoaded, apiLoading, creating>>
  /\ UNCHANGED <<tvars, dvars, pvars, cvars, wvars, avars, lvars, svars, kvars, nvars>>

\* destroyAll(), lines 115-119
DestroyAll ==
  /\ containers' = [c \in DOMAIN containers |->
                      IF \E plane \in Planes : overlays[plane] = c
                      THEN [containers[c] EXCEPT !.inDom = FALSE]
                      ELSE containers[c]]
  /\ overlays' = [plane \in Planes |-> 0]
  /\ overlayOp' = OverlayOp("destroyAll", "")
  /\ UNCHANGED <<apiLoaded, apiLoading, creating>>
  /\ UNCHANGED <<tvars, dvars, pvars, cvars, wvars, avars, lvars, svars, kvars, nvars>>

InitY ==
  /\ OverlaysIdle
  /\ TransportAbsent
  /\ DecoderAbsent
  /\ TrackerAbsent
  /\ CameraAbsent
  /\ WorldAbsent
  /\ AppAbsent
  /\ DetectionAbsent
  /\ SourcesAbsent
  /\ CalibrationAbsent
  /\ PlanesAbsent

NextY ==
  \/ \E plane \in Planes, videoId \in VideoIds : CreateOverlay(plane, videoId)
  \/ ApiReady
  \/ OverlayCreated
  \/ \E plane \in Planes : Destroy(plane)
  \/ DestroyAll

SpecOverlays == InitY /\ [][NextY]_vars

\* ------------------------------------------------- calibrated pipeline

\* what the calibration wizard hands to setCalibration: a measured width and
\* height
WizardPartials ==
  {partial \in CalibrationPartials :
     /\ DOMAIN partial = {"screenWidthCm", "screenHeightCm"}
     /\ partial.screenWidthCm.v > 0
     /\ partial.screenHeightCm.v > 0}

\* The tracking pipeline of an app whose calibration is changed while the
\* scene exists: the camera was made from the calibration of the page load.
InitCP ==
  /\ CalibrationIdle
  /\ config = ConstructorConfig(NumberArg(Num(30)))
  /\ previousPose = NullPose
  /\ smoothedCount = 0
  /\ trackerOp = TrackerCall("constructor")
  /\ now = 0
  /\ CameraIdle
  /\ AppIdle
  /\ TransportAbsent
  /\ DecoderAbsent
  /\ WorldAbsent
  /\ DetectionAbsent
  /\ SourcesAbsent
  /\ PlanesAbsent
  /\ OverlaysAbsent

NextCP ==
  \/ \E faceLandmarks \in DetectionResults : HandleResults(faceLandmarks)
  \/ \E partial \in WizardPartials : SetCalibration(partial)
  \/ Reset

SpecCalibratedPortal == InitCP /\ [][NextCP]_vars

\* ------------------------------------------------- transport: claims

\* C1: after close() no scheduled reconnect remains pending and the session
\* is not connecting or open again until the caller calls reconnect() (or
\* re-runs the effect); a close event after close() schedules nothing.
C1_CloseCancelsReconnect ==
  userClosed => (timers = {} /\ ConnState \in {"Closing", "Disconnected"})

\* the backoff schedule of the claim for base 1000 and max 30000
C2_Table == <<1000, 2000, 4000, 8000, 16000>>

\* C2: the k-th reconnect (k from 0) after the last successful open is
\* scheduled after min(reconnectDelay * 2^k, maxReconnectDelay) ms, that is
\* 1000, 2000, 4000, 8000, 16000 and then 30000 for every later attempt.
C2_BackoffSchedule ==
  \A i \in 1..Len(delays) :
    /\ delays[i] = Min(reconnectDelay * Pow2(i - 1), maxReconnectDelay)
    /\ delays[i] = IF i <= Len(C2_Table) THEN C2_Table[i] ELSE maxReconnectDelay

\* seven unexpected closes in a row: the cap was reached twice
C2_Witness ==
  /\ Len(delays) >= 7
  /\ delays[5] = 16000
  /\ delays[6] = maxReconnectDelay
  /\ delays[7] = maxReconnectDelay

\* C3: every successful open resets the attempt counter to 0: after an open
\* the counter equals the number of unexpected closes since that open, and the
\* first of them is scheduled after exactly the base delay.
C3_OpenResetsAttempt ==
  failsBeforeOpen >= 0 =>
    /\ reconnectAttemptRef = Len(delays)
    /\ Len(delays) >= 1 => delays[1] = reconnectDelay

\* two failed attempts, then an open, then the first unexpected close
C3_Witness == failsBeforeOpen >= 2 /\ Len(delays) = 1

\* C9 as stated: only Disconnected -> Connecting -> Open -> Disconnected and
\* Open -> Closing -> Disconnected occur, and Disconnected after an
\* intentional close is terminal.
C9_StatedMachine ==
  [][/\ \/ ConnState' = ConnState
        \/ <<ConnState, ConnState'>> \in
             {<<"Disconnected", "Connecting">>, <<"Connecting", "Open">>,
              <<"Open", "Disconnected">>, <<"Open", "Closing">>,
              <<"Closing", "Disconnected">>}
     /\ (intentionalCloseRef /\ ConnState = "Disconnected")
          => ConnState' = "Disconnected"]_vars

\* C9 amended: the transitions of the stated machine, plus a connecting socket
\* that fails (Connecting -> Disconnected) or is closed (Connecting ->
\* Closing), plus connect() replacing a socket that is still closing
\* (Closing -> Connecting); an open socket is replaced only by an effect re-run.
C9_AmendedMachine ==
  [][\/ ConnState' = ConnState
     \/ <<ConnState, ConnState'>> \in
          {<<"Disconnected", "Connecting">>, <<"Connecting", "Open">>,
           <<"Open", "Disconnected">>, <<"Open", "Closing">>,
           <<"Closing", "Disconnected">>,
           <<"Connecting", "Disconnected">>, <<"Connecting", "Closing">>,
           <<"Closing", "Connecting">>}
     \/ (EffectRerun /\ ConnState = "Open" /\ ConnState' = "Connecting")]_vars

\* a failed attempt, a retry that opened, an intentional close, closed
C9_Witness ==
  /\ failsBeforeOpen >= 1
  /\ intentionalCloseRef
  /\ userClosed
  /\ ConnState = "Disconnected"

C4_AppliedIncreasing ==
  [][/\ \A d \in DOMAIN decodes :
          (DecodeDone(d) /\ ~d.orphan /\ textures[d.src].image.kind = "bitmap")
            => Float64Lt(textures[d.src].image.ts, d.ts)
     /\ \A src \in Sources, buf \in WellFormedFrames :
          (/\ textures[src].image.kind = "bitmap"
           /\ textures[src].exists
           /\ Float64Leq(buf.timestamp, textures[src].image.ts)
           /\ ProcessFrame(src, buf))
            => (UNCHANGED <<textures, decodes>> /\ lastOp'.ret = "false")]_vars

\* C5: a processFrame call for a source that has a decode in flight returns
\* false and starts no decode.
C5_BusyDropsFrame ==
  [][\A src \in Sources, buf \in Buffers :
       (DecodeCount(src) > 0 /\ ProcessFrame(src, buf))
         => (decodes' = decodes /\ lastOp'.ret = "false")]_vars

\* C6: at most one decode is in flight per source id.
C6_OneDecodePerSource == \A src \in Sources : DecodeCount(src) <= 1

\* the three rejections of the claim, on the received length and header
C7_Malformed(buf) ==
  \/ buf.byteLength < 21
  \/ buf.type /= 1
  \/ buf.dataLen > buf.byteLength - 21

C7_MalformedBuffers == {buf \in Buffers : C7_Malformed(buf)}

\* C7: processFrame returns false for a buffer shorter than 21 bytes, with a
\* first byte other than 1, or declaring more payload than it carries, and
\* then creates no entry, starts no decode and changes no entry. Stated by
\* its contrapositive: a processFrame step that did not return false, or
\* that changed the map or the decodes in flight, is the call of no source
\* with a malformed buffer.
C7_MalformedRejected ==
  [][(/\ lastOp'.op = "processFrame"
      /\ ~(UNCHANGED <<textures, decodes>> /\ lastOp'.ret = "false"))
     => \A src \in Sources, buf \in C7_MalformedBuffers :
          ~ProcessFrame(src, buf)]_vars

\* a truncated frame was just rejected while a source shows a decoded frame
\* and another decode is in flight
C7_Witness ==
  /\ lastOp.op = "processFrame"
  /\ lastOp.why = "truncated"
  /\ \E src \in Sources : textures[src].image.kind = "bitmap"
  /\ decodes /= EmptyBag

\* C8: a failed decode returns false, clears the busy flag and leaves the
\* entry's timestamp, dimensions and image as they were, so that a frame with
\* the failed frame's timestamp passes the stale and busy checks again.
C8_DecodeFailureContained ==
  [][lastOp'.op = "decodeFail" =>
       \A d \in DOMAIN decodes :
         DecodeFail(d) =>
           /\ lastOp'.ret = "false"
           /\ \A src \in Sources : src /= d.src => textures'[src] = textures[src]
           /\ d.orphan => textures' = textures
           /\ ~d.orphan =>
                /\ textures[d.src].processing
                /\ ~textures'[d.src].processing
                /\ [textures'[d.src] EXCEPT !.processing = TRUE] = textures[d.src]
                /\ ~Float64Leq(d.ts, textures'[d.src].lastTimestamp)]_vars

\* a decode just failed on a source that already shows a decoded frame
C8_Witness ==
  /\ lastOp.op = "decodeFail"
  /\ \E src \in Sources :
       /\ textures[src].image.kind = "bitmap"
       /\ ~textures[src].processing
       /\ DecodeCount(src) = 0

\* C11: disposeTexture on a source with no entry and disposeAll on an empty
\* manager change nothing; every dispose leaves the entries of the other
\* sources as they were and leaves no entry for the disposed source(s); a
\* second call of the same dispose, made in the state the first one left,
\* changes nothing.
C11_DisposeIdempotent ==
  [][lastOp'.op \in {"disposeTexture", "disposeAll"} =>
       /\ \A src \in Sources :
            DisposeTexture(src) =>
              /\ ~textures'[src].exists
              /\ \A o \in Sources \ {src} : textures'[o] = textures[o]
              /\ ~textures[src].exists => UNCHANGED <<textures, decodes>>
              /\ DisposedTextures(textures', {src}) = textures'
       /\ DisposeAll =>
            /\ \A s \in Sources : ~textures'[s].exists
            /\ (\A s \in Sources : ~textures[s].exists)
                 => UNCHANGED <<textures, decodes>>
            /\ DisposedTextures(textures', Sources) = textures'
            /\ Orphaned(decodes', {s \in Sources : textures'[s].exists}) = decodes']_vars

\* disposeTexture was just called for a source without entry while the other
\* source shows a decoded frame and has a decode in flight
C11_Witness ==
  /\ lastOp.op = "disposeTexture"
  /\ lastOp.why = "absent"
  /\ \E src \in Sources :
       /\ textures[src].image.kind = "bitmap"
       /\ textures[src].processing
       /\ DecodeCount(src) = 1

\* C12: after disposeTexture(s) or disposeAll() no decoded bitmap of s is
\* left open, also when a decode for s was in flight at the dispose: no
\* decode installs its bitmap in an entry that was removed from the map,
\* where no later dispose can reach it to close it.
C12_DisposeReleasesAll ==
  ~(lastOp.op = "decodeDone" /\ lastOp.why = "orphan")

\* C13: while a source keeps its entry, the image of its texture changes
\* only when a decode completes, and then to the decoded frame, which is the
\* entry's open bitmap and carries the entry's last applied timestamp;
\* rejected and dropped frames, failed decodes and closes of the stream
\* socket leave the image as it is. An entry shows the placeholder exactly
\* as long as no frame was applied to it.
C13_KeepsLastFrame ==
  [][\A src \in Sources :
       /\ (textures[src].exists /\ textures'[src].exists) =>
            \/ textures'[src].image = textures[src].image
            \/ /\ lastOp'.op = "decodeDone"
               /\ textures'[src].image.kind = "bitmap"
               /\ textures'[src].image = textures'[src].lastBitmap
               /\ textures'[src].image.ts = textures'[src].lastTimestamp
       /\ textures'[src].exists =>
            (textures'[src].image = Placeholder
               <=> textures'[src].lastBitmap = NoBitmap)]_vars

\* the stream socket of a source just closed while one source shows a decoded
\* frame and the other one, which never received a frame, the placeholder
C13_Witness ==
  /\ lastOp.op = "streamClose"
  /\ \E src \in Sources : textures[src].image.kind = "bitmap"
  /\ \E src \in Sources :
       textures[src].exists /\ textures[src].image = Placeholder

\* C14: while a source keeps its entry, the entry's texture object stays the
\* same one, and it is no other source's; getTexture returns the texture of
\* the entry, changes nothing when the entry exists, and otherwise creates
\* an entry whose texture shows the placeholder.
C14_StableHandle ==
  [][/\ \A src \in Sources :
          /\ (textures[src].exists /\ textures'[src].exists)
               => textures'[src].texture = textures[src].texture
          /\ \A o \in Sources \ {src} :
               (textures'[src].exists /\ textures'[o].exists)
                 => textures'[src].texture /= textures'[o].texture
     /\ lastOp'.op = "getTexture" =>
          \A src \in Sources :
            GetTexture(src) =>
              /\ lastOp'.texture = textures'[src].texture
              /\ textures[src].exists => textures' = textures
              /\ ~textures[src].exists =>
                   /\ textures'[src].image = Placeholder
                   /\ \A o \in Sources \ {src} : textures'[o] = textures[o]]_vars

\* getTexture just returned the texture of a source that shows a decoded
\* frame
C14_Witness ==
  /\ lastOp.op = "getTexture"
  /\ \E src \in Sources :
       /\ lastOp.texture = textures[src].texture
       /\ textures[src].image.kind = "bitmap"

\* C15: a decode that completes on the entry of the map returns true and
\* leaves the entry with the frame's dimensions; when these differ from the
\* entry's dimensions before, texture.dispose() is called first and the
\* image is installed last; when they are equal, texture.dispose() is not
\* called.
C15_DimensionChange ==
  [][lastOp'.op = "decodeDone" =>
       \A d \in DOMAIN decodes :
         (DecodeDone(d) /\ ~d.orphan) =>
           LET before == <<textures[d.src].currentWidth, textures[d.src].currentHeight>>
               after == <<textures'[d.src].currentWidth, textures'[d.src].currentHeight>>
               calls == lastOp'.install
           IN /\ lastOp'.ret = "true"
              /\ after = d.dims
              /\ textures'[d.src].image.dims = d.dims
              /\ calls[Len(calls)] = "texture.image"
              /\ before /= d.dims => calls[1] = "texture.dispose"
              /\ before = d.dims =>
                   \A i \in 1..Len(calls) : calls[i] /= "texture.dispose"]_vars

\* a frame was just applied to a source that showed a frame of another size:
\* the GPU texture was released, the old bitmap closed, the image installed
C15_Witness ==
  /\ lastOp.op = "decodeDone"
  /\ lastOp.install = <<"texture.dispose", "lastBitmap.close", "texture.image">>
  /\ \E src \in Sources :
       /\ textures[src].image.kind = "bitmap"
       /\ textures[src].currentWidth = 128
       /\ textures[src].currentHeight = 96

\* ------------------------------------------------- head pose tracker: claims

PoseFields == {"x", "y", "z", "interOcularPx"}

\* C16: update returns null for a missing landmark list and for one with
\* fewer than 468 points, and leaves the previous sample and the config as
\* they were, so that the next valid update is smoothed against the same
\* previous sample as if the rejected call had not been made.
C16_NoPoseOnShortInput ==
  [][trackerOp'.op = "update" =>
       LET landmarks == trackerOp'.landmarks
       IN (landmarks.null \/ landmarks.length < 468)
            => /\ trackerOp'.ret.null
               /\ UNCHANGED <<previousPose, config>>]_vars

\* a list of 467 landmarks was just rejected by a tracker that holds a
\* smoothed sample
C16_Witness ==
  /\ trackerOp.op = "update"
  /\ trackerOp.ret.null
  /\ trackerOp.landmarks.length = 467
  /\ ~previousPose.null
  /\ smoothedCount >= 1

\* r is alpha * c + (1 - alpha) * p, up to the rounding of the two products
C17_IsEma(r, c, p, alpha) ==
  IF IsNaN(alpha) \/ IsNaN(c) \/ IsNaN(p) THEN IsNaN(r)
  ELSE /\ ~IsNaN(r)
       /\ Abs(100 * r.v - (alpha.v * c.v + (100 - alpha.v) * p.v)) <= 100

\* C17: a valid update made while the tracker holds no previous sample (after
\* creation or reset) returns the clamped raw sample as it is; a valid
\* update made while it holds one returns, per field, alpha * current +
\* (1 - alpha) * previous; the sample returned is the previous sample of the
\* next update.
C17_FirstRawThenSmoothed ==
  [][(trackerOp'.op = "update" /\ ~trackerOp'.ret.null) =>
           LET raw == RawPose(trackerOp'.landmarks.face, config, now)
               ret == trackerOp'.ret.pose
           IN /\ previousPose' = ret
              /\ previousPose.null => ret = raw
              /\ ~previousPose.null =>
                   \A f \in PoseFields :
                     C17_IsEma(ret[f], raw[f], previousPose[f],
                               config.smoothingFactor)]_vars

\* a second smoothed sample in a row was just returned, between the raw
\* sample and the previous one
C17_Witness ==
  /\ trackerOp.op = "update"
  /\ ~trackerOp.ret.null
  /\ smoothedCount = 2
  /\ config.smoothingFactor = Num(30)
  /\ trackerOp.ret.pose.x.v > trackerOp.raw.x.v
  /\ trackerOp.ret.pose.z.v > trackerOp.raw.z.v

\* the smoothing factor is in the range setSmoothingFactor allows
C18_AllowedFactor(alpha) == ~IsNaN(alpha) /\ 1 <= alpha.v /\ alpha.v <= 100

\* C18 as stated: when the same landmark list is fed again, the raw value is
\* a fixed point of the smoothing step and the update strictly reduces the
\* distance of every field to its raw value.
C18_StatedConvergence ==
  [][(/\ trackerOp'.op = "update"
      /\ ~trackerOp'.ret.null
      /\ trackerOp'.repeats > 1
      /\ C18_AllowedFactor(config.smoothingFactor)) =>
           \A f \in PoseFields :
             ~IsNaN(previousPose[f]) =>
               /\ ema(trackerOp'.raw[f], trackerOp'.raw[f], config.smoothingFactor)
                    = trackerOp'.raw[f]
               /\ Abs(trackerOp'.ret.pose[f].v - trackerOp'.raw[f].v)
                    < Abs(previousPose[f].v - trackerOp'.raw[f].v)]_vars

\* C18 amended: a smoothed update with a factor alpha of the allowed range
\* leaves every field at a distance from its raw value of at most (1 - alpha)
\* times the distance of the previous sample plus the rounding of the two
\* products: the distance shrinks strictly as long as alpha times the
\* distance exceeds that rounding, alpha = 1 reaches the raw value at once,
\* and a sample at the raw value stays within the rounding of it.
C18_AmendedConvergence ==
  [][(/\ trackerOp'.op = "update"
      /\ ~trackerOp'.ret.null
      /\ ~previousPose.null
      /\ C18_AllowedFactor(config.smoothingFactor)) =>
           \A f \in PoseFields :
             ~IsNaN(previousPose[f]) =>
               LET alpha == config.smoothingFactor.v
                   before == Abs(previousPose[f].v - trackerOp'.raw[f].v)
                   after == Abs(trackerOp'.ret.pose[f].v - trackerOp'.raw[f].v)
               IN /\ 100 * after <= (100 - alpha) * before + 100
                  /\ alpha * before > 100 => after < before
                  /\ alpha = 100 => after = 0]_vars

\* the same landmark list was fed twice to a tracker whose previous sample
\* was away from it: the pose has moved towards the raw value, not reached it
C18_Witness ==
  /\ trackerOp.op = "update"
  /\ trackerOp.repeats = 2
  /\ smoothedCount = 2
  /\ C18_AllowedFactor(config.smoothingFactor)
  /\ trackerOp.ret.pose.x.kind = "finite"
  /\ trackerOp.ret.pose.x /= trackerOp.raw.x

C19_InRange(a, range) ==
  ~IsNaN(a) /\ range[1].v <= a.v /\ a.v <= range[2].v

\* C19: every pose returned by update has x, y and z inside the configured
\* clamp ranges, its z is not 0 and its worldZ is a finite number.
C19_PoseInClampRanges ==
  (trackerOp.op = "update" /\ ~trackerOp.ret.null) =>
    /\ C19_InRange(trackerOp.ret.pose.x, config.clampX)
    /\ C19_InRange(trackerOp.ret.pose.y, config.clampY)
    /\ C19_InRange(trackerOp.ret.pose.z, config.clampZ)
    /\ trackerOp.ret.pose.z /= Num(0)
    /\ trackerOp.ret.world.z.kind = "finite"

\* C20 as stated: after setSmoothingFactor(f) the factor is greater than 0.01
\* and at most 1, and it is f when f is in that range.
C20_StatedClamp ==
  [][trackerOp'.op = "setSmoothingFactor" =>
       LET factor == trackerOp'.factor IN
           /\ ~IsNaN(config'.smoothingFactor)
           /\ config'.smoothingFactor.v > 1
           /\ config'.smoothingFactor.v <= 100
           /\ (~IsNaN(factor) /\ factor.v > 1 /\ factor.v <= 100)
                => config'.smoothingFactor = factor]_vars

\* C20 amended: setSmoothingFactor clamps to the closed range [0.01, 1]:
\* for every f that is a number the factor is f when 0.01 <= f <= 1, 0.01
\* when f is smaller and 1 when f is larger; for f = NaN the factor is NaN.
\* Nothing else of the tracker changes.
C20_AmendedClamp ==
  [][trackerOp'.op = "setSmoothingFactor" =>
       LET factor == trackerOp'.factor IN
           /\ IsNaN(factor) => IsNaN(config'.smoothingFactor)
           /\ ~IsNaN(factor) =>
                /\ ~IsNaN(config'.smoothingFactor)
                /\ config'.smoothingFactor.v >= 1
                /\ config'.smoothingFactor.v <= 100
                /\ (factor.v >= 1 /\ factor.v <= 100)
                     => config'.smoothingFactor = factor
                /\ factor.v < 1 => config'.smoothingFactor.v = 1
                /\ factor.v > 100 => config'.smoothingFactor.v = 100
           /\ [config' EXCEPT !.smoothingFactor = config.smoothingFactor] = config
           /\ UNCHANGED previousPose]_vars

\* setSmoothingFactor(0) was just called on a tracker that holds a sample:
\* the factor is 0.01
C20_Witness ==
  /\ trackerOp.op = "setSmoothingFactor"
  /\ trackerOp.factor = Num(0)
  /\ config.smoothingFactor = Num(1)
  /\ ~previousPose.null

\* ------------------------------------------------- off-axis camera: claims

IsFinite(a) == a.kind = "finite"

C23_Recomputes == {"updateFromHeadPose", "setHeadPosition", "handleResize"}

\* C23: the frustum applied is left = (-halfW - headX) * near / dist,
\* right = (halfW - headX) * near / dist, bottom = (-halfH - headY) * near /
\* dist, top = (halfH - headY) * near / dist; with head offset (0, 0, dist)
\* left = -right and bottom = -top; right - left and top - bottom are
\* 2 * halfW * near / dist and 2 * halfH * near / dist whatever headX and
\* headY are, up to the rounding of the two products.
C23_Frustum ==
  [][(/\ cameraOp'.op \in C23_Recomputes
      /\ \A a \in {headX', headY', headZ', screenWidth, screenHeight,
                   settings.nearPlane} : IsFinite(a)) =>
       LET m == camera'.projectionMatrix
           halfW == FineDivide(screenWidth, Fine(20000))
           halfH == FineDivide(screenHeight, Fine(20000))
           nearOverDist == FineDivide(settings.nearPlane, headZ')
       IN /\ m.left = FineTimes(FineMinus(FineNeg(halfW), headX'), nearOverDist)
          /\ m.right = FineTimes(FineMinus(halfW, headX'), nearOverDist)
          /\ m.bottom = FineTimes(FineMinus(FineNeg(halfH), headY'), nearOverDist)
          /\ m.top = FineTimes(FineMinus(halfH, headY'), nearOverDist)
          /\ headX' = Fine(0) => m.left = FineNeg(m.right)
          /\ headY' = Fine(0) => m.bottom = FineNeg(m.top)
          /\ Abs(10000 * (m.right.v - m.left.v) - 2 * halfW.v * nearOverDist.v)
               <= 10000
          /\ Abs(10000 * (m.top.v - m.bottom.v) - 2 * halfH.v * nearOverDist.v)
               <= 10000]_vars

\* the head is at (0, 0, 0.6) in front of the default screen: the frustum
\* is symmetric and not empty
C23_Witness ==
  /\ cameraOp.op = "updateFromHeadPose"
  /\ cameraOp.arg = PoseCentre
  /\ headX = Fine(0)
  /\ headY = Fine(0)
  /\ headZ = Fine(6000)
  /\ camera.projectionMatrix.left = FineNeg(camera.projectionMatrix.right)
  /\ camera.projectionMatrix.bottom = FineNeg(camera.projectionMatrix.top)
  /\ camera.projectionMatrix.right.v > 0
  /\ camera.projectionMatrix.top.v > 0

\* C24: the frustum applied to the camera satisfies near < far, left <
\* right and bottom < top.
C24_FrustumWellFormed ==
  LET m == camera.projectionMatrix
  IN /\ FineLess(m.near, m.far)
     /\ FineLess(m.left, m.right)
     /\ FineLess(m.bottom, m.top)

C29_StoredOnly ==
  [][/\ cameraOp'.op \in {"updateSettings", "updateScreenDimensions"}
        => /\ camera'.projectionMatrix = camera.projectionMatrix
           /\ camera'.position = camera.position
           /\ camera'.aspect = camera.aspect
           /\ UNCHANGED <<headX, headY, headZ>>
     /\ cameraOp'.op = "updateSettings"
        => /\ camera'.near = settings'.nearPlane
           /\ camera'.far = settings'.farPlane
           /\ UNCHANGED <<screenWidth, screenHeight>>
     /\ cameraOp'.op = "updateScreenDimensions"
        => UNCHANGED <<settings>> /\ camera' = camera
     /\ cameraOp'.op = "handleResize"
        => /\ camera'.aspect = Aspect(cameraOp'.arg[1], cameraOp'.arg[2])
           /\ camera'.projectionMatrix.near = settings.nearPlane
           /\ camera'.projectionMatrix.far = settings.farPlane
           /\ camera'.position = Vector3(headX, headY, headZ)
           /\ camera' = UpdatedCamera([camera EXCEPT !.aspect = camera'.aspect],
                                      settings, screenWidth, screenHeight,
                                      headX, headY, headZ)
           /\ UNCHANGED <<settings, screenWidth, screenHeight, headX, headY,
                          headZ>>]_vars

\* updateSettings has just stored a far plane that the projection matrix
\* does not have yet
C29_Witness ==
  /\ cameraOp.op = "updateSettings"
  /\ settings.farPlane = Fine(50)
  /\ camera.far = Fine(50)
  /\ camera.projectionMatrix.far = Fine(100000)

\* ------------------------------------------------- world conversion: claims

\* C21: headPoseToWorldPosition returns worldX = -(x - 0.5) * screenWidthCm,
\* worldY = -(y - 0.5) * screenHeightCm and worldZ = baseDistanceCm / z; for
\* x = 0.5, y = 0.5, z = 1.0 and a screen of 34 by 19 at 60 it returns
\* (0, 0, 60); no state of the tracker is written by the call.
C21_WorldConversion ==
  [][worldCall'.op = "headPoseToWorldPosition" =>
       LET pose == worldCall'.pose
           screen == worldCall'.screen
           ret == worldCall'.ret
       IN /\ ret.x = Times(Num(-(pose.x.v - 50)), screen[1])
          /\ ret.y = Times(Num(-(pose.y.v - 50)), screen[2])
          /\ pose.z.v /= 0 =>
               /\ ret.z.kind = "finite"
               /\ Abs(ret.z.v * pose.z.v - 100 * screen[3].v) * 2 <= Abs(pose.z.v)
          /\ pose.z.v = 0 => ret.z.kind = "infinity"
          /\ (/\ pose = [x |-> Num(50), y |-> Num(50), z |-> Num(100)]
              /\ screen = <<Num(3400), Num(1900), Num(6000)>>)
               => ret = [x |-> Num(0), y |-> Num(0), z |-> Num(6000)]
          /\ UNCHANGED <<config, previousPose>>]_vars

\* the conversion of the spec's example was just computed
C21_Witness ==
  /\ worldCall.op = "headPoseToWorldPosition"
  /\ worldCall.pose = [x |-> Num(50), y |-> Num(50), z |-> Num(100)]
  /\ worldCall.screen = <<Num(3400), Num(1900), Num(6000)>>
  /\ worldCall.ret = [x |-> Num(0), y |-> Num(0), z |-> Num(6000)]

\* ------------------------------------------------- tracker clock: claims

\* C30: the timestamp of every pose update() returns is greater than the
\* timestamp of the pose the update before it returned (the one the tracker
\* still holds), however close together the two calls are.
C30_TimestampsIncrease ==
  [][(/\ trackerOp'.op = "update"
      /\ ~trackerOp'.ret.null
      /\ ~previousPose.null)
     => trackerOp'.ret.pose.timestamp > previousPose.timestamp]_vars

\* ------------------------------------------------- tracking pipeline: claims

\* what the renderer shows: the head offsets, the position of the camera and
\* its projection
C26_View ==
  <<headX, headY, headZ, camera.position, camera.projectionMatrix>>

\* C26: a detection tick that delivers no face, or a first face of fewer
\* than 468 landmarks, hands null to the pose consumer and leaves the head
\* offsets, the position and the projection of the camera as the last valid
\* pose left them; they change only with a valid pose or a resize.
C26_FreezeOnNoFace ==
  /\ [][(/\ portalOp'.op = "handleResults"
         /\ ~HasFace(portalOp'.faceLandmarks))
        => (/\ currentHeadPose'.null
            /\ C26_View' = C26_View
            /\ UNCHANGED <<headX, headY, headZ, previousPose>>)]_vars
  /\ [][(C26_View' # C26_View)
        => (\/ portalOp'.op = "handleResize"
            \/ (/\ portalOp'.op = "handleResults"
                /\ HasFace(portalOp'.faceLandmarks)
                /\ ~currentHeadPose'.null))]_vars

\* a tick without a face came after a pose that had moved the camera off
\* the axis of the screen
C26_Witness ==
  /\ portalOp.op = "handleResults"
  /\ ~HasFace(portalOp.faceLandmarks)
  /\ Len(portalOp.faceLandmarks) > 0
  /\ currentHeadPose.null
  /\ cameraOp.op = "updateFromHeadPose"
  /\ headX # Fine(0)

\* ------------------------------------------------- detection loop: claims

\* C25: after stopDetection, and until startDetection is called, the browser
\* holds no detection callback and no callback invokes the detector, whatever
\* the sequence of startDetection and stopDetection calls was.
C25_StopCancelsDetection ==
  /\ [](stopped => frames = {})
  /\ [][(stopped /\ detectionOp'.op = "frame" /\ detectionOp' # detectionOp)
        => ~detectionOp'.invoked]_vars

\* ------------------------------------------------- video sources: claims

\* C27: a texture entry of a source exists only while the caller has
\* referenced the source, through getTexture or connectSource, since it last
\* disconnected it: after disconnectSource no entry comes back by itself.
C27_EntryOnlyWhileReferenced ==
  \A s \in Sources : textures[s].exists => referenced[s]

\* C34: every stream socket of a source that is connecting or open is the
\* socket the map holds for the source, so there is at most one and
\* disconnectSource can close it.
C34_LiveSocketIsTracked ==
  \A id \in DOMAIN streams :
    streams[id].readyState \in {CONNECTING, OPEN}
      => streamSocketsRef[streams[id].src] = id

\* C31: the first pose delivered after a gap (one or more ticks without a
\* face) is the clamped raw pose of that tick, not a blend with the pose from
\* before the gap.
C31_RawAfterGap ==
  [][(/\ portalOp'.op = "handleResults"
      /\ HasFace(portalOp'.faceLandmarks)
      /\ currentHeadPose.null)
     => currentHeadPose'.pose = trackerOp'.raw]_vars

\* ------------------------------------------------- calibration: claims

\* C33: the stored screen width and height of the calibration are numbers
\* greater than 0 in every reachable state of the calibration manager.
C33_ScreenSizePositive ==
  /\ data.screenWidthCm.kind = "finite" /\ data.screenWidthCm.v > 0
  /\ data.screenHeightCm.kind = "finite" /\ data.screenHeightCm.v > 0

\* C37: at every updateFromHeadPose the camera's screen width and height are
\* the calibration's screenWidthCm / 100 and screenHeightCm / 100, the screen
\* size the tracker converted the pose with.
C37_CameraScreenIsCalibration ==
  [][(/\ portalOp'.op = "handleResults"
      /\ HasFace(portalOp'.faceLandmarks)
      /\ UNCHANGED kvars)
     => LET fine(a) == IF a.kind = "finite" THEN Fine(a.v * 100) ELSE a
        IN /\ screenWidth' = FineDivide(fine(data.screenWidthCm), Hundred)
           /\ screenHeight' = FineDivide(fine(data.screenHeightCm), Hundred)]_vars

\* ------------------------------------------------- frame decoder: sources apart

\* C32: processFrame(s), the completion of its decode and disposeTexture(s)
\* change no entry but that of s (the source of the decode a step starts or
\* ends), and a frame is dropped as busy only when its own source is busy.
C32_SourcesIndependent ==
  [][/\ lastOp'.op = "processFrame"
        => \A t \in Sources :
             textures'[t] # textures[t]
               => IF decodes' # decodes
                  THEN \E d \in DOMAIN decodes' :
                         d.src = t /\ decodes' = decodes (+) SetToBag({d})
                  ELSE \E buf \in Buffers : FrameProcessed(t, buf)
     /\ lastOp'.op \in {"decodeDone", "decodeFail"}
        => \A t \in Sources :
             textures'[t] # textures[t]
               => \E d \in DOMAIN decodes :
                    d.src = t /\ decodes' = decodes (-) SetToBag({d})
     /\ lastOp'.op = "disposeTexture"
        => \A t \in Sources : textures'[t] # textures[t] => TextureDisposed(t)
     /\ (lastOp'.op = "processFrame" /\ lastOp'.why = "busy")
        => \A src \in Sources :
             ~(textures[src].exists /\ textures[src].processing)
               => \A buf \in Buffers : ~FrameProcessed(src, buf)]_vars

\* a frame of one source was taken for decoding while another source is busy
\* with a frame that arrived before
C32_Witness ==
  /\ lastOp.op = "processFrame"
  /\ lastOp.ret = "pending"
  /\ \A src \in Sources : textures[src].exists /\ textures[src].processing
  /\ \A src \in Sources : DecodeCount(src) = 1

\* ------------------------------------------------- transport: handlers, timers, flag

\* C35: at most one socket has event handlers attached and at most one
\* backoff timer is pending.
C35_OneHandlerOneBackoff ==
  /\ Cardinality({s \in Slots : sockets[s].handlers}) <= 1
  /\ Cardinality({t \in timers : t.kind = "backoff"}) <= 1

\* C36: the connected flag is true only while the current socket is open; of
\* the claim's cases, this is the flag being false whenever the current socket
\* is connecting or closed, a socket that has just replaced another included.
C36_ConnectedOnlyWhileOpen ==
  connected => wsRef # 0 /\ sockets[wsRef].readyState \in {OPEN, CLOSING}

\* ------------------------------------------------- depth planes: claims

\* C38: a stream source is connected (its socket is in the map and its
\* texture entry exists) exactly when at least one plane has it assigned.
C38_ConnectedIffAssigned ==
  \A src \in Sources :
    (streamSocketsRef[src] # 0 /\ textures[src].exists)
      <=> (\E plane \in Planes : depthPlanes[plane].sourceId = src)

\* ------------------------------------------------- video overlays: claims

\* C39: every overlay container in the document is the container of the
\* record the map holds for its plane, so a plane has at most one.
C39_ContainerIsTracked ==
  \A c \in DOMAIN containers :
    containers[c].inDom => overlays[containers[c].plane] = c

====
